---- MODULE Spec2Model ----
(***************************************************************************)
(* Protocol Risk Oracle: the risk scoring engine (six category analyzers   *)
(* and the aggregation in analyzeProtocol) and the POST /api/analyze       *)
(* handler that guards it.                                                 *)
(*                                                                         *)
(* Units.  Fractions of one (quorum, proposalThreshold,                    *)
(* topHolderVotingPower, concentration, fees) are integers in basis points *)
(* (1 = 0.0001).  Confidences are integers in hundredths.  Money and token *)
(* amounts are integers counted in thousands (liquidity 50 is $50,000);    *)
(* the thresholds of the source are written in the same unit.  The clock   *)
(* is Date.now() in whole seconds, the unit of the vesting timestamps.     *)
(*                                                                         *)
(* Numbers.  The source computes in IEEE-754 doubles.  Every score, and    *)
(* every quantity the source reaches through more than one rounded         *)
(* operation, is a double here too, computed by the same operations in the *)
(* same order (Dec, FromInt, FAdd, FMul, FDivInt below), from the double   *)
(* the input denotes: Dollars(k) for an amount, Dec(f, 10000) for a        *)
(* fraction in basis points, Dec(c, 100) for a confidence.  A comparison   *)
(* of one quotient of two whole numbers with a decimal literal is written  *)
(* on the integers: the quotient is rounded once, to the nearest double,   *)
(* and so is the literal, which keeps their order.                         *)
(* Strings the code inspects (name, token symbols) are sequences of        *)
(* one-character strings.  An optional value is <<>> (absent) or <<v>>.    *)
(***************************************************************************)
EXTENDS Integers, Sequences, FiniteSets, TLC

\* ------------------------------------------------------------------------
\* Bounds of the model
\* ------------------------------------------------------------------------
MaxPools == 2
MaxTicks == 1
MaxInFlight == 1

\* ------------------------------------------------------------------------
\* Generic helpers
\* ------------------------------------------------------------------------
None == <<>>
Some(x) == <<x>>
IsSome(o) == Len(o) > 0
Val(o) == o[1]

RECURSIVE SumSeq(_)
SumSeq(s) == IF Len(s) = 0 THEN 0 ELSE Head(s) + SumSeq(Tail(s))

RECURSIVE Flatten(_)
Flatten(ss) == IF Len(ss) = 0 THEN <<>> ELSE Head(ss) \o Flatten(Tail(ss))

MaxOf(S) == CHOOSE x \in S : \A y \in S : y <= x

\* ------------------------------------------------------------------------
\* IEEE-754 binary64 numbers (the JavaScript number type)
\* ------------------------------------------------------------------------
\* A non-negative double is [m, e] of value M * 2^e, where the significand
\* M is written in four limbs of 14 bits, least significant first
\* (M = m[1] + m[2]*2^14 + m[3]*2^28 + m[4]*2^42), and 2^52 <= M < 2^53;
\* zero is the one double whose limbs are all 0.  The numbers of the program
\* stay far from the subnormal and the overflow range.  An exact
\* intermediate result is a natural number in eight limbs times a power of
\* two, which Pack rounds to the nearest double, ties to even.
Pow2Table == << 1, 2, 4, 8, 16, 32, 64, 128, 256, 512, 1024, 2048, 4096,
               8192, 16384 >>
Pow2(k) == Pow2Table[k + 1]

Zero == [m |-> << 0, 0, 0, 0 >>, e |-> 0]
IsZero(x) == x.m = << 0, 0, 0, 0 >>

Limb(N, j) == IF j >= 1 /\ j <= Len(N) THEN N[j] ELSE 0

RECURSIVE BitLenInt(_)
BitLenInt(x) == IF x = 0 THEN 0 ELSE 1 + BitLenInt(x \div 2)

RECURSIVE TopLimb(_, _)
TopLimb(N, i) == IF i = 0 \/ N[i] # 0 THEN i ELSE TopLimb(N, i - 1)

BitLenAt(N, top) == IF top = 0 THEN 0 ELSE 14 * (top - 1) + BitLenInt(N[top])

BigBitLen(N) == BitLenAt(N, TopLimb(N, Len(N)))

\* limb i of N * 2^(14 * a + b)
ShiftLeftLimb(N, a, b, i) ==
  ((Limb(N, i - a) * Pow2(b)) % 16384) + (Limb(N, i - a - 1) \div Pow2(14 - b))

\* limb i of floor(N / 2^(14 * a + b))
ShiftRightLimb(N, a, b, i) ==
  (Limb(N, i + a) \div Pow2(b)) + ((Limb(N, i + a + 1) % Pow2(b)) * Pow2(14 - b))

\* limb i of N * 2^s for s >= 0, of floor(N / 2^-s) for s < 0
ShiftLimb(N, s, i) ==
  IF s >= 0 THEN ShiftLeftLimb(N, s \div 14, s % 14, i)
  ELSE ShiftRightLimb(N, (-s) \div 14, (-s) % 14, i)

\* N * 2^s, or floor(N / 2^-s), in eight limbs
Shift(N, s) == [i \in 1..8 |-> ShiftLimb(N, s, i)]

\* N * 2^s in eight limbs
ShiftLeft(N, s) == Shift(N, s)

\* floor(N / 2^s) in eight limbs
ShiftRight(N, s) == Shift(N, -s)

\* bit k of N (bit 0 is the least significant)
BitOf(N, k) == (Limb(N, (k \div 14) + 1) \div Pow2(k % 14)) % 2

\* whether N has a 1 among its s lowest bits
LowBitsSet(N, s) ==
  \/ \E i \in 1..(s \div 14) : Limb(N, i) # 0
  \/ Limb(N, (s \div 14) + 1) % Pow2(s % 14) # 0

\* the limbs i..8 of X + Y + c
RECURSIVE AddFrom(_, _, _, _)
AddFrom(X, Y, i, c) ==
  IF i > 8 THEN << >>
  ELSE << (X[i] + Y[i] + c) % 16384 >>
         \o AddFrom(X, Y, i + 1, (X[i] + Y[i] + c) \div 16384)

BigAdd(X, Y) == AddFrom(X, Y, 1, 0)

\* the 53-bit significand Q plus one
SigInc(Q) ==
  LET s1 == Q[1] + 1
      s2 == Q[2] + (s1 \div 16384)
      s3 == Q[3] + (s2 \div 16384)
      s4 == Q[4] + (s3 \div 16384)
  IN << s1 % 16384, s2 % 16384, s3 % 16384, s4 >>

\* the double of significand M[1..4] and exponent e
Sig(M, e) == [m |-> << M[1], M[2], M[3], M[4] >>, e |-> e]

\* the same when the significand has reached 2^53
Carried(R, e) ==
  IF R[4] = 2048 THEN [m |-> << 0, 0, 0, 1024 >>, e |-> e + 1] ELSE [m |-> R, e |-> e]

\* round to nearest, ties to even: N = Q * 2^s + rest, whether Q goes up
RoundsUp(N, s, sticky, Q) ==
  s > 0 /\ BitOf(N, s - 1) = 1 /\ (sticky \/ LowBitsSet(N, s - 1) \/ Q[1] % 2 = 1)

\* Q is N scaled to 53 bits: N * 2^-s for s <= 0, floor(N / 2^s) for s > 0
PackRounded(N, e, sticky, s, Q) ==
  IF RoundsUp(N, s, sticky, Q) THEN Carried(SigInc(Q), e + s) ELSE Sig(Q, e + s)

PackLen(N, e, sticky, len) ==
  IF len = 0 THEN Zero
  ELSE PackRounded(N, e, sticky, len - 53, Shift(N, 53 - len))

\* The double nearest to (N + f) * 2^e, ties to even, where 0 <= f < 1 and
\* sticky tells whether f > 0; with sticky, N has at least 55 bits.
Pack(N, e, sticky) == PackLen(N, e, sticky, BigBitLen(N))

\* the double of a natural number below 2^31
FromInt(n) ==
  Pack(<< n % 16384, (n \div 16384) % 16384, n \div 268435456, 0, 0, 0, 0, 0 >>,
       0, FALSE)

\* x < y on non-negative doubles
FLess(x, y) ==
  IF IsZero(y) THEN FALSE
  ELSE IF IsZero(x) THEN TRUE
  ELSE IF x.e # y.e THEN x.e < y.e
  ELSE IF x.m[4] # y.m[4] THEN x.m[4] < y.m[4]
  ELSE IF x.m[3] # y.m[3] THEN x.m[3] < y.m[3]
  ELSE IF x.m[2] # y.m[2] THEN x.m[2] < y.m[2]
  ELSE x.m[1] < y.m[1]

\* hi + lo where hi has the larger exponent, rounded
AddOrdered(hi, lo) ==
  IF hi.e - lo.e > 56 THEN hi
  ELSE Pack(BigAdd(ShiftLeft(hi.m, hi.e - lo.e),
                   << lo.m[1], lo.m[2], lo.m[3], lo.m[4], 0, 0, 0, 0 >>),
            lo.e, FALSE)

\* x + y, rounded
FAdd(x, y) ==
  IF IsZero(x) THEN y
  ELSE IF IsZero(y) THEN x
  ELSE AddOrdered(IF x.e >= y.e THEN x ELSE y, IF x.e >= y.e THEN y ELSE x)

\* a[i] * b[k + 1 - i] where both limbs exist
MulTerm(a, b, i, k) ==
  IF k + 1 - i >= 1 /\ k + 1 - i <= 4 THEN a[i] * b[k + 1 - i] ELSE 0

\* the limbs k..8 of a * b, c being the carry into limb k and t the sum of
\* the products of limb k plus that carry
RECURSIVE MulFrom(_, _, _, _)
MulCarry(a, b, k, t) == << t % 16384 >> \o MulFrom(a, b, k + 1, t \div 16384)

MulFrom(a, b, k, c) ==
  IF k > 8 THEN << >>
  ELSE MulCarry(a, b, k, MulTerm(a, b, 1, k) + MulTerm(a, b, 2, k)
                           + MulTerm(a, b, 3, k) + MulTerm(a, b, 4, k) + c)

\* x * y, rounded
FMul(x, y) ==
  IF IsZero(x) \/ IsZero(y) THEN Zero
  ELSE Pack(MulFrom(x.m, y.m, 1, 0), x.e + y.e, FALSE)

\* One limb of a long division by d < 2^30: << quotient limb, remainder >>
\* of (r * 2^14 + limb) / d for r < d, taken in k chunks of c bits so that
\* no intermediate value leaves the 32-bit integers; t is the remainder so
\* far followed by the next chunk.
RECURSIVE DivChunks(_, _, _, _, _, _)
DivChunk(limb, d, c, k, q, t) ==
  DivChunks(t % d, limb, d, c, k - 1, q * Pow2(c) + (t \div d))

DivChunks(r, limb, d, c, k, q) ==
  IF k = 0 THEN << q, r >>
  ELSE DivChunk(limb, d, c, k, q,
                r * Pow2(c) + ((limb \div Pow2(c * (k - 1))) % Pow2(c)))

ChunkBits(d) == IF d <= 131072 THEN 14 ELSE IF d <= 16777216 THEN 7 ELSE 1

DivLimb(r, limb, d) == DivChunks(r, limb, d, ChunkBits(d), 14 \div ChunkBits(d), 0)

\* long division of the limbs i..1 of N by d, r being the remainder so far
\* and Q the quotient limbs above i: << quotient, remainder >>
RECURSIVE DivFrom(_, _, _, _, _)
DivStep(N, d, i, Q, ql) == DivFrom(N, d, i - 1, ql[2], << ql[1] >> \o Q)

DivFrom(N, d, i, r, Q) ==
  IF i = 0 THEN << Q, r >>
  ELSE DivStep(N, d, i, Q, DivLimb(r, N[i], d))

\* the double of a quotient and its remainder
PackQuotient(qr, e) == Pack(qr[1], e, qr[2] # 0)

\* x / d for a whole number d, 0 < d < 2^30, rounded
FDivInt(x, d) ==
  IF IsZero(x) THEN Zero
  ELSE PackQuotient(DivFrom(ShiftLeft(x.m, 32), d, 7, 0, << 0 >>), x.e - 32)

\* n / d for whole numbers n and d, rounded
Quotient(n, d) == FDivInt(FromInt(n), d)

\* the quotients lo/d..hi/d, in order
RECURSIVE QuotientRange(_, _, _)
QuotientRange(lo, hi, d) ==
  IF lo = hi THEN << Quotient(lo, d) >>
  ELSE QuotientRange(lo, (lo + hi) \div 2, d) \o QuotientRange(((lo + hi) \div 2) + 1, hi, d)

\* one row of quotients 0/d..100/d for each divisor d of ds
RECURSIVE QuotientRows(_)
QuotientRows(ds) ==
  IF Len(ds) = 0 THEN << >>
  ELSE << QuotientRange(0, 100, Head(ds)) >> \o QuotientRows(Tail(ds))

\* the divisors of the decimal literals and fractions the program uses
DecDivisors == << 10, 100, 1000, 10000 >>

\* the quotients n/d for n in 0..100 and d in DecDivisors, divided once
DecTable == QuotientRows(DecDivisors)

\* the row of DecTable that holds the quotients by d, 0 when there is none
DecRow(d) == IF d = 10 THEN 1 ELSE IF d = 100 THEN 2 ELSE IF d = 1000 THEN 3
             ELSE IF d = 10000 THEN 4 ELSE 0

\* The double a decimal literal n/d denotes (0.9 is Dec(9, 10)), which is
\* also the quotient n / d of two whole numbers, rounded
Dec(n, d) ==
  IF n <= 100 /\ DecRow(d) > 0 THEN DecTable[DecRow(d)][n + 1] ELSE Quotient(n, d)

\* the whole number of the three lowest limbs of Q
WholeOf(Q) == Q[1] + Q[2] * 16384 + Q[3] * 268435456

\* Math.round(x) for 0 <= x < 2^31: floor(x + 0.5)
MathRound(x) ==
  IF IsZero(x) \/ -x.e > 54 THEN 0
  ELSE WholeOf(ShiftRight(x.m, -x.e)) + BitOf(x.m, -x.e - 1)

\* Math.floor(x) for 0 <= x < 2^31
MathFloor(x) ==
  IF IsZero(x) \/ -x.e > 53 THEN 0
  ELSE WholeOf(ShiftRight(x.m, -x.e))

\* the double of an amount of k thousand (dollars or tokens), k < 2^21
Dollars(k) == FromInt(k * 1000)

\* array.reduce((sum, x) => sum + x, 0) on doubles, left to right
RECURSIVE FSum(_)
FSum(s) == IF Len(s) = 0 THEN Zero
           ELSE FAdd(FSum(SubSeq(s, 1, Len(s) - 1)), s[Len(s)])

\* x >= y on non-negative doubles
FGeq(x, y) == ~FLess(x, y)

\* the whole numbers the source compares scores with
F3 == FromInt(3)
F6 == FromInt(6)
F8 == FromInt(8)
F10 == FromInt(10)

\* String.prototype.toLowerCase on the letters the inputs use
UpperChars == <<"A","B","C","D","E","F","G","H","I","J","K","L","M",
                "N","O","P","Q","R","S","T","U","V","W","X","Y","Z">>
LowerChars == <<"a","b","c","d","e","f","g","h","i","j","k","l","m",
                "n","o","p","q","r","s","t","u","v","w","x","y","z">>
UpperSet == { UpperChars[k] : k \in 1..26 }
LowerOf == [c \in UpperSet |-> LowerChars[CHOOSE k \in 1..26 : UpperChars[k] = c]]
\* Variant of toLowerCase that leaves the string as it is
toLowerCase_asIs(s) == s

toLowerCase(s) ==
  [i \in 1..Len(s) |-> IF s[i] \in UpperSet THEN LowerOf[s[i]] ELSE s[i]]

\* String.prototype.includes
includes(s, sub) ==
  \E i \in 0..(Len(s) - Len(sub)) :
     \A j \in 1..Len(sub) : s[i + j] = sub[j]

\* ------------------------------------------------------------------------
\* Findings and categories
\* ------------------------------------------------------------------------
\* The gameTheory annotation bag: the fields the aggregation reads.
GT(concept, equilibria, strategy, dominance) ==
  Some([concept |-> concept, equilibria |-> equilibria,
        strategy |-> strategy, dominance |-> dominance])

\* A Finding: title, the pool the title names (token0, token1) if any,
\* confidence in hundredths, whether a mitigation text is present.
Finding(title, subject, confidence, mitigation, gameTheory) ==
  [title |-> title, subject |-> subject, confidence |-> confidence,
   mitigation |-> mitigation, gameTheory |-> gameTheory]

\* One triggered rule check: the finding it pushes, the points it adds.
Rule(f, pts) == [f |-> f, pts |-> pts]

RuleFindings(rules) == [i \in 1..Len(rules) |-> rules[i].f]
RulePoints(rules) == SumSeq([i \in 1..Len(rules) |-> rules[i].pts])

RiskCategory(name, score, severity, findings) ==
  [name |-> name, score |-> score, severity |-> severity, findings |-> findings]

\* Variant of scoreSeverity that compares with > where the source has >=
scoreSeverity_strict(score) ==
  IF FLess(F8, score) THEN "critical"
  ELSE IF FLess(F6, score) THEN "high"
  ELSE IF FLess(F3, score) THEN "medium"
  ELSE "low"

\* scoreSeverity, identical in all six analyzer classes
scoreSeverity(score) ==
  IF FGeq(score, F8) THEN "critical"
  ELSE IF FGeq(score, F6) THEN "high"
  ELSE IF FGeq(score, F3) THEN "medium"
  ELSE "low"

\* Math.min(10, avgScore)
MathMin10(score) == IF FLess(F10, score) THEN F10 ELSE score

\* totalScore / findings.length, guarded as in the source
Average(total, count) == IF count > 0 THEN FDivInt(FromInt(total), count) ELSE Zero

\* What an analyzer returns for an average score: score is
\* Math.min(10, avgScore), severity is this.scoreSeverity(avgScore)
ScoredCategory(name, avgScore, findings) ==
  RiskCategory(name, MathMin10(avgScore), scoreSeverity(avgScore), findings)

\* The same for a run of rule checks: avgScore = totalScore / findings.length
RuleCategoryOf(name, rules, findings) ==
  ScoredCategory(name, Average(RulePoints(rules), Len(findings)), findings)

RuleCategory(name, rules) == RuleCategoryOf(name, rules, RuleFindings(rules))

\* ------------------------------------------------------------------------
\* GovernanceAnalyzer (dist/analyzers/governance.js)
\* ------------------------------------------------------------------------
\* Variant of the placeholder carrying the score 2 of the pool-less placeholders
GovernancePlaceholder_score2 ==
  RiskCategory("Governance Risk", FromInt(2), "low",
    << Finding("No Governance Data Available", <<>>, 30, FALSE, None) >>)

GovernancePlaceholder ==
  RiskCategory("Governance Risk", Zero, "low",
    << Finding("No Governance Data Available", <<>>, 30, FALSE, None) >>)

\* Variant of GovernanceRules whose quorum checks include their thresholds
GovernanceRules_inclusiveQuorum(gov) ==
  (IF gov.quorum <= 400
   THEN << Rule(Finding("Critically Low Quorum Threshold", <<>>, 90, TRUE, None), 8) >>
   ELSE IF gov.quorum <= 1000
   THEN << Rule(Finding("Low Quorum Threshold", <<>>, 70, FALSE, None), 4) >>
   ELSE <<>>)
  \o (IF gov.timelockDelay < 24 * 3600
      THEN << Rule(Finding("Short Timelock Delay", <<>>, 85, TRUE, None), 6) >>
      ELSE <<>>)
  \o (IF gov.topHolderVotingPower > 5000
      THEN << Rule(Finding("Majority Voting Power Concentration", <<>>, 95, TRUE, None), 9) >>
      ELSE IF gov.topHolderVotingPower > 3300
      THEN << Rule(Finding("High Voting Power Concentration", <<>>, 80, FALSE, None), 5) >>
      ELSE <<>>)
  \o (IF gov.proposalThreshold > 500
      THEN << Rule(Finding("High Proposal Threshold", <<>>, 60, TRUE, None), 3) >>
      ELSE <<>>)

\* The rule checks of GovernanceAnalyzer.analyze, in source order
GovernanceRules(gov) ==
  (IF gov.quorum < 400
   THEN << Rule(Finding("Critically Low Quorum Threshold", <<>>, 90, TRUE, None), 8) >>
   ELSE IF gov.quorum < 1000
   THEN << Rule(Finding("Low Quorum Threshold", <<>>, 70, FALSE, None), 4) >>
   ELSE <<>>)
  \o (IF gov.timelockDelay < 24 * 3600
      THEN << Rule(Finding("Short Timelock Delay", <<>>, 85, TRUE, None), 6) >>
      ELSE <<>>)
  \o (IF gov.topHolderVotingPower > 5000
      THEN << Rule(Finding("Majority Voting Power Concentration", <<>>, 95, TRUE, None), 9) >>
      ELSE IF gov.topHolderVotingPower > 3300
      THEN << Rule(Finding("High Voting Power Concentration", <<>>, 80, FALSE, None), 5) >>
      ELSE <<>>)
  \o (IF gov.proposalThreshold > 500
      THEN << Rule(Finding("High Proposal Threshold", <<>>, 60, TRUE, None), 3) >>
      ELSE <<>>)

GovernanceAnalyzer_analyze(protocol) ==
  IF ~IsSome(protocol.governance)
  THEN GovernancePlaceholder
  ELSE RuleCategory("Governance Risk", GovernanceRules(Val(protocol.governance)))

\* ------------------------------------------------------------------------
\* EconomicAnalyzer (src/analyzers/economic.ts)
\* ------------------------------------------------------------------------
\* Variant of upcomingUnlocks whose window includes its last instant
upcomingUnlocks_inclusive(schedule, now) ==
  SelectSeq(schedule,
            LAMBDA v : v.timestamp > now /\ v.timestamp <= now + 30 * 24 * 3600)

\* vestingSchedule.filter(v => v.timestamp > now && v.timestamp < now + 30d)
upcomingUnlocks(schedule, now) ==
  SelectSeq(schedule,
            LAMBDA v : v.timestamp > now /\ v.timestamp < now + 30 * 24 * 3600)

analyzeTokenomics(tokenomics, now) ==
  LET conc == tokenomics.concentration
      concRules ==
        IF IsSome(conc)
        THEN IF Val(conc) > 8000
             THEN << Rule(Finding("Extreme Token Concentration", <<>>, 90, TRUE, None), 8) >>
             ELSE IF Val(conc) > 6000
             THEN << Rule(Finding("Moderate Token Concentration", <<>>, 70, FALSE, None), 4) >>
             ELSE <<>>
        ELSE <<>>
      em == tokenomics.emissionRate
      circ == tokenomics.circulatingSupply
      emRules ==
        IF IsSome(em) /\ Val(em) # 0 /\ circ # 0
        THEN \* annualDilution = emissionRate * 365 * 24 / circulatingSupply
             IF Val(em) * 365 * 24 > circ
             THEN << Rule(Finding("Hyperinflationary Emission Schedule", <<>>, 95, TRUE, None), 9) >>
             ELSE IF 2 * Val(em) * 365 * 24 > circ
             THEN << Rule(Finding("High Emission Rate", <<>>, 80, FALSE, None), 5) >>
             ELSE <<>>
        ELSE <<>>
      vest == tokenomics.vestingSchedule
      vestRules ==
        IF IsSome(vest) /\ Len(Val(vest)) > 0
        THEN LET up == upcomingUnlocks(Val(vest), now)
                 totalUnlock == SumSeq([i \in 1..Len(up) |-> up[i].amount])
             IN \* unlockPercent = totalUnlock / circulatingSupply * 100 > 10
                \* (x/0 is Infinity for x > 0 and NaN for x = 0)
                IF totalUnlock * 100 > 10 * circ
                THEN << Rule(Finding("Major Token Unlock Imminent", <<>>, 85, TRUE, None), 7) >>
                ELSE <<>>
        ELSE <<>>
      rules == concRules \o emRules \o vestRules
  IN [score |-> Average(RulePoints(rules), Len(rules)),
      findings |-> RuleFindings(rules), rules |-> rules]

\* pool.volume24h / (pool.liquidity || 1); the fallback 1 is one dollar.
\* The quotient of the two amounts is the quotient of their thousands.
volumeToLiquidity(pool) ==
  IF pool.liquidity = 0 THEN Dollars(pool.volume24h)
  ELSE FDivInt(FromInt(pool.volume24h), pool.liquidity)

\* JS truthiness of protocol.pools && protocol.pools.length > 0
HasPools(protocol) == IsSome(protocol.pools) /\ Len(Val(protocol.pools)) > 0

analyzeFlashLoanRisk(protocol) ==
  IF HasPools(protocol)
     /\ Len(SelectSeq(Val(protocol.pools), LAMBDA p : p.liquidity < 100)) > 0
  THEN << Rule(Finding("Low Liquidity Pools Vulnerable to Manipulation", <<>>, 80, TRUE, None), 7) >>
  ELSE <<>>

\* Variant of analyzeOracleRisk that emits nothing
analyzeOracleRisk_silent(protocol) == << >>

analyzeOracleRisk(protocol) ==
  << Rule(Finding("Oracle Configuration Review Required", <<>>, 50, TRUE, None), 3) >>

\* pools.reduce((sum, p) => sum + p.volume24h / (p.liquidity || 1), 0)
\*   / pools.length
avgUtilizationOf(pools) ==
  FDivInt(FSum([i \in 1..Len(pools) |-> volumeToLiquidity(pools[i])]), Len(pools))

analyzeIncentiveAlignment(protocol) ==
  IF HasPools(protocol) /\ FLess(Dec(9, 10), avgUtilizationOf(Val(protocol.pools)))
  THEN << Rule(Finding("High Utilization Creates Withdrawal Race", <<>>, 75, TRUE, None), 6) >>
  ELSE <<>>

\* what stands for the tokenomics result when protocol.tokenomics is absent
NoTokenomics == [score |-> Zero, findings |-> <<>>, rules |-> <<>>]

\* Variant of the economic category that adds the tokenomics points
\* themselves, not their average, to totalScore
EconomicCategory_summed(tok, flash, oracle, incentive, findingCount) ==
  ScoredCategory("Economic Risk",
    FDivInt(FAdd(FAdd(FAdd(FromInt(RulePoints(tok.rules)), FromInt(RulePoints(flash))),
                      FromInt(RulePoints(oracle))),
                 FromInt(RulePoints(incentive))),
            findingCount),
    tok.findings \o RuleFindings(flash) \o RuleFindings(oracle) \o RuleFindings(incentive))

\* The category of the four partial results: totalScore += score, four
\* times over, from 0; avgScore = totalScore / findingCount
EconomicCategory(tok, flash, oracle, incentive, findingCount) ==
  ScoredCategory("Economic Risk",
    FDivInt(FAdd(FAdd(FAdd(tok.score, FromInt(RulePoints(flash))),
                      FromInt(RulePoints(oracle))),
                 FromInt(RulePoints(incentive))),
            findingCount),
    tok.findings \o RuleFindings(flash) \o RuleFindings(oracle) \o RuleFindings(incentive))

\* Variant of EconomicAnalyzer.analyze that adds the tokenomics points
\* themselves, not their average, to totalScore
EconomicAnalyzer_analyze_summed(protocol, now) ==
  EconomicCategory_summed(
    IF IsSome(protocol.tokenomics)
    THEN analyzeTokenomics(Val(protocol.tokenomics), now) ELSE NoTokenomics,
    analyzeFlashLoanRisk(protocol), analyzeOracleRisk(protocol),
    analyzeIncentiveAlignment(protocol),
    (IF IsSome(protocol.tokenomics) THEN 1 ELSE 0) + 3)

EconomicAnalyzer_analyze(protocol, now) ==
  EconomicCategory(
    IF IsSome(protocol.tokenomics)
    THEN analyzeTokenomics(Val(protocol.tokenomics), now) ELSE NoTokenomics,
    analyzeFlashLoanRisk(protocol), analyzeOracleRisk(protocol),
    analyzeIncentiveAlignment(protocol),
    (IF IsSome(protocol.tokenomics) THEN 1 ELSE 0) + 3)

\* ------------------------------------------------------------------------
\* MEVAnalyzer (src/analyzers/mev.ts)
\* ------------------------------------------------------------------------
PoolSubject(pool) == << pool.token0, pool.token1 >>

\* the sandwich checks of analyzePool on volumeToLiquidity
SandwichRules(pool, v2l) ==
  IF FLess(Dec(5, 10), v2l) /\ pool.liquidity < 500
  THEN << Rule(Finding("High Sandwich Attack Exposure", PoolSubject(pool), 85, TRUE, None), 7) >>
  ELSE IF FLess(Dec(3, 10), v2l)
  THEN << Rule(Finding("Moderate Sandwich Risk", PoolSubject(pool), 60, FALSE, None), 4) >>
  ELSE <<>>

MEVAnalyzer_analyzePool(pool) ==
  SandwichRules(pool, volumeToLiquidity(pool))
  \o (IF pool.fees < 30 /\ pool.liquidity > 1000
      THEN << Rule(Finding("JIT Liquidity Target", PoolSubject(pool), 70, TRUE, None), 5) >>
      ELSE <<>>)

\* Variant of analyzeOracleMEV that emits nothing
analyzeOracleMEV_silent(protocol) == << >>

analyzeOracleMEV(protocol) ==
  << Rule(Finding("Oracle Update Front-Running Risk", <<>>, 50, TRUE, None), 3) >>

\* the checks of every pool, then the oracle check
MEVRules(protocol, pools) ==
  Flatten([i \in 1..Len(pools) |-> MEVAnalyzer_analyzePool(pools[i])])
    \o analyzeOracleMEV(protocol)

MEVPlaceholder ==
  RiskCategory("MEV Risk", FromInt(2), "low",
    << Finding("No Pool Data Available", <<>>, 30, FALSE, None) >>)

\* Variant of MEVAnalyzer.analyze whose guard tests only that protocol.pools
\* is there, so that an empty pools array runs the rules
MEVAnalyzer_analyze_emptyRuns(protocol) ==
  IF ~IsSome(protocol.pools)
  THEN MEVPlaceholder
  ELSE RuleCategory("MEV Risk", MEVRules(protocol, Val(protocol.pools)))

\* Variant of MEVAnalyzer.analyze whose guard reads protocol.pools.length
\* without testing protocol.pools first
MEVAnalyzer_analyze_unguarded(protocol) ==
  IF ~IsSome(protocol.pools)
  THEN [thrown |-> "TypeError"]
  ELSE IF Len(Val(protocol.pools)) = 0
  THEN MEVPlaceholder
  ELSE RuleCategory("MEV Risk", MEVRules(protocol, Val(protocol.pools)))

MEVAnalyzer_analyze(protocol) ==
  IF ~HasPools(protocol)
  THEN MEVPlaceholder
  ELSE RuleCategory("MEV Risk", MEVRules(protocol, Val(protocol.pools)))

\* ------------------------------------------------------------------------
\* LiquidityAnalyzer (class LiquidityAnalyzer, compiled JavaScript)
\* ------------------------------------------------------------------------
\* dailyFeeRevenue = pool.volume24h * pool.fees, then
\* (dailyFeeRevenue * 365) / pool.liquidity, for a pool.liquidity that is
\* not 0 (a division by 0 gives Infinity or NaN, neither of them < 0.02)
annualizedAPR(pool) ==
  FDivInt(FMul(FMul(Dollars(pool.volume24h), Dec(pool.fees, 10000)), FromInt(365)),
          pool.liquidity * 1000)

analyzePoolLiquidity(pool) ==
  (IF pool.liquidity < 10
   THEN << Rule(Finding("Critically Thin Liquidity", PoolSubject(pool), 90, TRUE, None), 8) >>
   ELSE IF pool.liquidity < 100
   THEN << Rule(Finding("Low Liquidity Pool", PoolSubject(pool), 70, FALSE, None), 4) >>
   ELSE <<>>)
  \o (IF pool.liquidity # 0 /\ FLess(annualizedAPR(pool), Dec(2, 100))
      THEN << Rule(Finding("Unsustainable LP Economics", PoolSubject(pool), 60, TRUE, None), 3) >>
      ELSE <<>>)

Str_USD == << "U", "S", "D" >>
Str_USDC == << "U", "S", "D", "C" >>
Str_USDT == << "U", "S", "D", "T" >>

analyzeImpermanentLoss(pools) ==
  LET volatilePairs ==
        SelectSeq(pools, LAMBDA p :
          /\ ~includes(p.token0, Str_USD) /\ ~includes(p.token1, Str_USD)
          /\ ~includes(p.token0, Str_USDC) /\ ~includes(p.token1, Str_USDC)
          /\ ~includes(p.token0, Str_USDT) /\ ~includes(p.token1, Str_USDT))
  IN \* volatilePairs.length > pools.length * 0.7
     IF FLess(FMul(FromInt(Len(pools)), Dec(7, 10)), FromInt(Len(volatilePairs)))
     THEN << Rule(Finding("High Impermanent Loss Exposure", <<>>, 70, TRUE, None), 5) >>
     ELSE <<>>

LiquidityPlaceholder ==
  RiskCategory("Liquidity Risk", FromInt(2), "low",
    << Finding("No Liquidity Pool Data", <<>>, 30, FALSE, None) >>)

\* protocol.pools.reduce((sum, p) => sum + p.liquidity, 0)
totalLiquidityOf(pools) == SumSeq([i \in 1..Len(pools) |-> pools[i].liquidity])

\* JS truthiness of protocol.tvl
HasTvl(protocol) == IsSome(protocol.tvl) /\ Val(protocol.tvl) # 0

\* the rule checks of LiquidityAnalyzer.analyze, in source order
LiquidityRules(protocol, pools, totalLiquidity, largestPool) ==
  (IF 10 * largestPool > 8 * totalLiquidity
   THEN << Rule(Finding("Extreme Liquidity Concentration", <<>>, 85, TRUE, None), 7) >>
   ELSE <<>>)
  \o (IF HasTvl(protocol) /\ 10 * totalLiquidity < Val(protocol.tvl)
      THEN << Rule(Finding("Liquidity-TVL Mismatch", <<>>, 75, TRUE, None), 6) >>
      ELSE <<>>)
  \o Flatten([i \in 1..Len(pools) |-> analyzePoolLiquidity(pools[i])])
  \o analyzeImpermanentLoss(pools)

\* Math.max(...protocol.pools.map(p => p.liquidity))
largestPoolOf(pools) == MaxOf({ pools[i].liquidity : i \in 1..Len(pools) })

LiquidityAnalyzer_analyze(protocol) ==
  IF ~HasPools(protocol)
  THEN LiquidityPlaceholder
  ELSE RuleCategory("Liquidity Risk",
         LiquidityRules(protocol, Val(protocol.pools),
                        totalLiquidityOf(Val(protocol.pools)),
                        largestPoolOf(Val(protocol.pools))))

\* ------------------------------------------------------------------------
\* GameTheoryAnalyzer (analyzers/game-theory.ts)
\* ------------------------------------------------------------------------
analyzeNashEquilibria(protocol) ==
  (IF IsSome(protocol.pools) /\ HasTvl(protocol)
      \* utilizationRatio = totalPoolLiquidity / tvl < 0.3
      /\ 10 * totalLiquidityOf(Val(protocol.pools)) < 3 * Val(protocol.tvl)
   THEN << Finding("Bank Run Equilibrium Exists", <<>>, 85, TRUE,
             GT("Multiple Nash Equilibria",
                Some(<< "(Stay, Stay)", "(Run, Run)" >>), "", "")) >>
   ELSE <<>>)
  \o (IF IsSome(protocol.governance)
         /\ Val(protocol.governance).topHolderVotingPower > 3300
         /\ Val(protocol.governance).topHolderVotingPower < 5000
         /\ Val(protocol.governance).quorum > 2000
      THEN << Finding("Governance Deadlock Equilibrium", <<>>, 75, TRUE,
                GT("Veto Player Deadlock",
                   Some(<< "Stalemate (no proposals pass)" >>), "", "")) >>
      ELSE <<>>)

analyzeDominantStrategies(protocol) ==
  (IF IsSome(protocol.tokenomics)
      /\ IsSome(Val(protocol.tokenomics).emissionRate)
      /\ Val(Val(protocol.tokenomics).emissionRate) # 0
      /\ Val(protocol.tokenomics).circulatingSupply # 0
      \* dailyDilution = emissionRate * 24 / circulatingSupply > 0.01
      /\ 100 * Val(Val(protocol.tokenomics).emissionRate) * 24
           > Val(protocol.tokenomics).circulatingSupply
   THEN << Finding("Dominant Strategy: Farm-and-Dump", <<>>, 90, TRUE,
             GT("Strictly Dominant Strategy", None,
                "Sell immediately upon receiving rewards",
                "Strictly dominant - always better regardless of others")) >>
   ELSE <<>>)
  \o (IF IsSome(protocol.pools)
         \* p.volume24h / p.liquidity > 0.3 && p.liquidity < 500000
         /\ Len(SelectSeq(Val(protocol.pools), LAMBDA p :
                  10 * p.volume24h > 3 * p.liquidity /\ p.liquidity < 500)) > 0
      THEN << Finding("Dominant Strategy: MEV Extraction", <<>>, 80, TRUE,
                GT("Tragedy of the Commons", None, "Extract maximum MEV", "")) >>
      ELSE <<>>)

analyzeCoordinationGames(protocol) ==
  (IF IsSome(protocol.governance)
      /\ Val(protocol.governance).votingPeriod < 5 * 24 * 3600
   THEN << Finding("Schelling Point Attack Surface", <<>>, 70, TRUE,
             GT("Schelling Point / Focal Point", None, "", "")) >>
   ELSE <<>>)
  \o (IF HasPools(protocol)
         /\ Len(SelectSeq(Val(protocol.pools), LAMBDA p : p.liquidity < 100)) >= 2
      THEN << Finding("Cross-Venue Oracle Manipulation", <<>>, 75, TRUE,
                GT("Coordinated Deviation", None, "", "")) >>
      ELSE <<>>)

\* pools.reduce((sum, p) => sum + p.volume24h * p.fees, 0)
totalFeesOf(pools) ==
  FSum([i \in 1..Len(pools) |->
         FMul(Dollars(pools[i].volume24h), Dec(pools[i].fees, 10000))])

\* totalVolume * 0.005, totalVolume being the sum of the volume24h
mevEstimateOf(pools) ==
  FMul(Dollars(SumSeq([i \in 1..Len(pools) |-> pools[i].volume24h])), Dec(5, 1000))

analyzeMechanismDesign(protocol) ==
  (IF IsSome(protocol.governance)
   THEN << Finding("Incentive Compatibility Analysis", <<>>, 60, TRUE,
             GT("Incentive Compatibility (Revelation Principle)", None, "", "")) >>
   ELSE <<>>)
  \o (IF IsSome(protocol.pools)
         \* mevEstimate > totalFees * 0.5
         /\ FLess(FMul(totalFeesOf(Val(protocol.pools)), Dec(5, 10)),
                  mevEstimateOf(Val(protocol.pools)))
      THEN << Finding("Value Leakage to External Extractors", <<>>, 65, TRUE,
                GT("Budget Balance / Value Leakage", None, "", "")) >>
      ELSE <<>>)

analyzeMultiAgentDynamics(protocol) ==
  (IF HasTvl(protocol) /\ IsSome(protocol.pools)
      \* liquidityRatio = totalLiquidity / tvl < 0.2
      /\ 5 * totalLiquidityOf(Val(protocol.pools)) < Val(protocol.tvl)
   THEN << Finding("Liquidation Cascade Dynamics", <<>>, 80, TRUE,
             GT("Negative Externality Cascade", None, "", "")) >>
   ELSE <<>>)
  \o (IF IsSome(protocol.pools)
         /\ \E i \in 1..Len(Val(protocol.pools)) : Val(protocol.pools)[i].volume24h > 100
      THEN << Finding("Frontrunning Arms Race", <<>>, 70, TRUE,
                GT("Red Queen Effect / Arms Race", None, "", "")) >>
      ELSE <<>>)
  \o (IF IsSome(protocol.governance)
         /\ Val(protocol.governance).timelockDelay < 48 * 3600
      THEN << Finding("Information Asymmetry Exploitation", <<>>, 65, TRUE,
                GT("Adverse Selection / Lemon Problem", None, "", "")) >>
      ELSE <<>>)

\* Variant of findingSeverity that compares with > where the source has >=
findingSeverity_strict(confidence) ==
  IF confidence > 85 THEN "critical"
  ELSE IF confidence > 70 THEN "high"
  ELSE IF confidence > 50 THEN "medium"
  ELSE "low"

findingSeverity(confidence) ==
  IF confidence >= 85 THEN "critical"
  ELSE IF confidence >= 70 THEN "high"
  ELSE IF confidence >= 50 THEN "medium"
  ELSE "low"

severityWeight(severity) ==
  CASE severity = "critical" -> 10
    [] severity = "high" -> 7
    [] severity = "medium" -> 4
    [] severity = "low" -> 1

\* f.confidence || 0.5
ConfidenceOrHalf(f) == IF f.confidence = 0 THEN 50 ELSE f.confidence

\* severityWeight[severity] * confidence, the severity being that of the
\* confidence
WeightedConfidence(confidence) ==
  FMul(FromInt(severityWeight(findingSeverity(confidence))), Dec(confidence, 100))

\* findings.reduce((sum, f) => sum + severityWeight[...] * (f.confidence || 0.5), 0)
GameTheoryTotal(findings) ==
  FSum([i \in 1..Len(findings) |-> WeightedConfidence(ConfidenceOrHalf(findings[i]))])

\* findings.length > 0 ? Math.min(10, totalScore / findings.length) : 0
ClampedAverage(totalScore, count) ==
  IF count > 0 THEN MathMin10(FDivInt(totalScore, count)) ELSE Zero

\* What an analyzer returns for a clamped average: score: avgScore,
\* severity: this.scoreSeverity(avgScore)
ClampedCategory(name, avgScore, findings) ==
  RiskCategory(name, avgScore, scoreSeverity(avgScore), findings)

GameTheoryCategory(findings) ==
  ClampedCategory("Game-Theoretic Risk",
                  ClampedAverage(GameTheoryTotal(findings), Len(findings)), findings)

GameTheoryAnalyzer_analyze(protocol) ==
  GameTheoryCategory(analyzeNashEquilibria(protocol)
                       \o analyzeDominantStrategies(protocol)
                       \o analyzeCoordinationGames(protocol)
                       \o analyzeMechanismDesign(protocol)
                       \o analyzeMultiAgentDynamics(protocol))

\* ------------------------------------------------------------------------
\* ComposabilityAnalyzer (class ComposabilityAnalyzer, compiled JavaScript)
\* ------------------------------------------------------------------------
Str_yield == << "y", "i", "e", "l", "d" >>
Str_vault == << "v", "a", "u", "l", "t" >>
Str_farm == << "f", "a", "r", "m" >>
Str_staked == << "s", "t", "a", "k", "e", "d" >>
Str_liquid == << "l", "i", "q", "u", "i", "d" >>
Str_lst == << "l", "s", "t" >>
Str_perp == << "p", "e", "r", "p" >>
Str_option == << "o", "p", "t", "i", "o", "n" >>
Str_synthetic == << "s", "y", "n", "t", "h", "e", "t", "i", "c" >>
Str_lend == << "l", "e", "n", "d" >>
Str_borrow == << "b", "o", "r", "r", "o", "w" >>
Str_aave == << "a", "a", "v", "e" >>
Str_compound == << "c", "o", "m", "p", "o", "u", "n", "d" >>
Str_margin == << "m", "a", "r", "g", "i", "n" >>
Str_bridge == << "b", "r", "i", "d", "g", "e" >>
Str_wormhole == << "w", "o", "r", "m", "h", "o", "l", "e" >>
Str_layerzero == << "l", "a", "y", "e", "r", "z", "e", "r", "o" >>
Str_cross == << "c", "r", "o", "s", "s" >>
Str_w == << "w" >>

\* protocol.name.toLowerCase().includes(w) for some w of ws
NameMatches(protocol, ws) ==
  LET lower == toLowerCase(Val(protocol.name))
  IN \E w \in ws : includes(lower, w)

analyzeDependencyDepth(protocol) ==
  (IF NameMatches(protocol, {Str_yield, Str_vault, Str_farm})
   THEN << Finding("Yield Aggregator Dependency Stack", <<>>, 70, TRUE,
             GT("Cascading Failure", None, "", "")) >>
   ELSE <<>>)
  \o (IF NameMatches(protocol, {Str_staked, Str_liquid, Str_lst})
      THEN << Finding("Liquid Staking Derivative Risk", <<>>, 65, TRUE,
                GT("Peg Stability Game",
                   Some(<< "Peg maintained (confidence)", "Depeg spiral (panic)" >>),
                   "", "")) >>
      ELSE <<>>)
  \o (IF NameMatches(protocol, {Str_perp, Str_option, Str_synthetic})
      THEN << Finding("Derivative Protocol Layered Risk", <<>>, 75, TRUE,
                GT("Mechanism Complexity Risk", None, "", "")) >>
      ELSE <<>>)

analyzeOracleConcentration(protocol) ==
  IF HasTvl(protocol) /\ Val(protocol.tvl) > 10000
  THEN << Finding("Oracle Dependency Analysis Required", <<>>, 60, TRUE,
            GT("Single Point of Failure", None, "", "")) >>
  ELSE <<>>

analyzeLiquidityFragmentation(protocol) ==
  IF IsSome(protocol.pools) /\ Len(Val(protocol.pools)) > 3
  THEN LET pools == Val(protocol.pools)
           totalLiquidity == totalLiquidityOf(pools)
           \* p.liquidity < avgLiquidity * 0.5, avgLiquidity = total / length
           smallPools == SelectSeq(pools, LAMBDA p :
                           2 * Len(pools) * p.liquidity < totalLiquidity)
       IN IF 2 * Len(smallPools) > Len(pools)
          THEN << Finding("Liquidity Fragmentation Risk", <<>>, 60, TRUE,
                    GT("Coordination Failure", None, "", "")) >>
          ELSE <<>>
  ELSE <<>>

analyzeCollateralChain(protocol) ==
  IF NameMatches(protocol, {Str_lend, Str_borrow, Str_aave, Str_compound, Str_margin})
     /\ HasTvl(protocol) /\ Val(protocol.tvl) > 50000
  THEN << Finding("Collateral Chain / Rehypothecation Risk", <<>>, 70, TRUE,
            GT("Hidden Leverage / Systemic Risk",
               Some(<< "Stable leverage (calm markets)", "Deleveraging spiral (stress)" >>),
               "", "")) >>
  ELSE <<>>

\* Variant of analyzeReentrancyEconomics that tests protocol.pools alone,
\* which an empty array satisfies
analyzeReentrancyEconomics_truthy(protocol) ==
  IF IsSome(protocol.pools)
  THEN << Finding("Cross-Contract Interaction Risk", <<>>, 55, TRUE,
            GT("Atomicity Exploitation", None, "", "")) >>
  ELSE <<>>

analyzeReentrancyEconomics(protocol) ==
  IF HasPools(protocol)
  THEN << Finding("Cross-Contract Interaction Risk", <<>>, 55, TRUE,
            GT("Atomicity Exploitation", None, "", "")) >>
  ELSE <<>>

analyzeBridgeRisk(protocol) ==
  LET isBridge == NameMatches(protocol, {Str_bridge, Str_wormhole, Str_layerzero, Str_cross})
      usesWrappedAssets ==
        IsSome(protocol.pools)
        /\ \E i \in 1..Len(Val(protocol.pools)) :
             LET p == Val(protocol.pools)[i]
             IN \/ includes(toLowerCase(p.token0), Str_w)
                \/ includes(toLowerCase(p.token1), Str_w)
                \/ includes(toLowerCase(p.token0), Str_bridge)
                \/ includes(toLowerCase(p.token1), Str_bridge)
  IN (IF isBridge
      THEN << Finding("Bridge Protocol - Maximum Composability Risk", <<>>, 85, TRUE,
                GT("Trust Minimization Failure", None, "", "")) >>
      ELSE <<>>)
     \o (IF usesWrappedAssets
         THEN << Finding("Wrapped Asset Dependency", <<>>, 60, TRUE,
                   GT("Counterparty Risk", None, "", "")) >>
         ELSE <<>>)

\* What a call leaves when it throws instead of returning
Thrown(error) == [thrown |-> error]
IsThrown(x) == "thrown" \in DOMAIN x

\* findings.reduce((sum, f) => sum + (f.confidence * 10), 0)
ComposabilityTotal(findings) ==
  FSum([i \in 1..Len(findings) |-> FMul(Dec(findings[i].confidence, 100), F10)])

ComposabilityCategory(findings) ==
  ClampedCategory("Composability Risk",
                  ClampedAverage(ComposabilityTotal(findings), Len(findings)), findings)

\* protocol.name.toLowerCase() raises a TypeError when name is undefined
ComposabilityAnalyzer_analyze(protocol) ==
  IF ~IsSome(protocol.name)
  THEN Thrown("TypeError")
  ELSE ComposabilityCategory(analyzeDependencyDepth(protocol)
                               \o analyzeOracleConcentration(protocol)
                               \o analyzeLiquidityFragmentation(protocol)
                               \o analyzeCollateralChain(protocol)
                               \o analyzeReentrancyEconomics(protocol)
                               \o analyzeBridgeRisk(protocol))

\* ------------------------------------------------------------------------
\* analyzeProtocol: the aggregation (dist/index.js)
\* ------------------------------------------------------------------------
\* Object.entries(categories) order
CategoryKeys == << "economic", "governance", "liquidity", "composability",
                   "mev", "gameTheory" >>
\* the order in which analyzeProtocol calls the analyzers
CallOrder == << "economic", "governance", "mev", "liquidity", "gameTheory",
                "composability" >>
KeySet == { CategoryKeys[i] : i \in 1..Len(CategoryKeys) }

\* weights, in hundredths (0.20 is 20)
weights(key) ==
  CASE key = "economic" -> 20
    [] key = "governance" -> 15
    [] key = "liquidity" -> 20
    [] key = "composability" -> 10
    [] key = "mev" -> 10
    [] key = "gameTheory" -> 25

\* One analyzer call: the category it returns, or what it throws
Analyze(key, protocol, now) ==
  CASE key = "economic" -> EconomicAnalyzer_analyze(protocol, now)
    [] key = "governance" -> GovernanceAnalyzer_analyze(protocol)
    [] key = "mev" -> MEVAnalyzer_analyze(protocol)
    [] key = "liquidity" -> LiquidityAnalyzer_analyze(protocol)
    [] key = "gameTheory" -> GameTheoryAnalyzer_analyze(protocol)
    [] key = "composability" -> ComposabilityAnalyzer_analyze(protocol)

\* A category slot that holds undefined, and number NaN
IsUndefined(x) == "undefined" \in DOMAIN x
NaN == [nan |-> TRUE]
IsNaN(x) == "nan" \in DOMAIN x

\* Variant of the rounding that truncates: Math.floor(x * 10) / 10
RoundTenths_floor(x) == Dec(MathFloor(FMul(x, F10)), 10)

\* Math.round(overallScore * 10) / 10
RoundTenths(x) == Dec(MathRound(FMul(x, F10)), 10)

\* Object.entries(categories).reduce((sum, [key, cat]) =>
\*     sum + cat.score * (weights[key] || 0), 0), then rounded
overallScoreOf(categories) ==
  IF \E k \in KeySet : "score" \notin DOMAIN categories[k]
  THEN NaN
  ELSE RoundTenths(FSum([i \in 1..Len(CategoryKeys) |->
         FMul(categories[CategoryKeys[i]].score, Dec(weights(CategoryKeys[i]), 100))]))

severityOrder == << "low", "medium", "high", "critical" >>
\* severityOrder.indexOf(s), zero-based, -1 when not found
indexOfSeverity(s) ==
  IF \E i \in 1..4 : severityOrder[i] = s
  THEN (CHOOSE i \in 1..4 : severityOrder[i] = s) - 1
  ELSE -1

severityOf(cat) == IF "severity" \in DOMAIN cat THEN cat.severity ELSE "undefined"

\* Variant of the reduce that compares the severity strings themselves
\* (s > max), which orders them alphabetically
lexicalRank(s) ==
  CASE s = "critical" -> 0
    [] s = "high" -> 1
    [] s = "low" -> 2
    [] s = "medium" -> 3
    [] OTHER -> 4
RECURSIVE maxSeverityFrom_lexical(_, _, _)
maxSeverityFrom_lexical(categories, i, max) ==
  IF i > Len(CategoryKeys) THEN max
  ELSE LET s == severityOf(categories[CategoryKeys[i]])
       IN maxSeverityFrom_lexical(categories, i + 1,
            IF lexicalRank(s) > lexicalRank(max) THEN s ELSE max)

\* Variant of the reduce whose comparison is inverted (indexOf(s) < indexOf(max)),
\* which never leaves the initial 'low'
RECURSIVE maxSeverityFrom_inverted(_, _, _)
maxSeverityFrom_inverted(categories, i, max) ==
  IF i > Len(CategoryKeys) THEN max
  ELSE LET s == severityOf(categories[CategoryKeys[i]])
       IN maxSeverityFrom_inverted(categories, i + 1,
            IF indexOfSeverity(s) < indexOfSeverity(max) THEN s ELSE max)

RECURSIVE maxSeverityFrom(_, _, _)
maxSeverityFrom(categories, i, max) ==
  IF i > Len(CategoryKeys) THEN max
  ELSE LET s == severityOf(categories[CategoryKeys[i]])
       IN maxSeverityFrom(categories, i + 1,
            IF indexOfSeverity(s) > indexOfSeverity(max) THEN s ELSE max)

\* Variant that derives the overall severity from the overall score
maxSeverityOf_fromScore(categories) == scoreSeverity(overallScoreOf(categories))

maxSeverityOf(categories) == maxSeverityFrom(categories, 1, "low")

\* Object.values(categories).flatMap(c => c.findings)
allFindingsOf(categories) ==
  Flatten([i \in 1..Len(CategoryKeys) |-> categories[CategoryKeys[i]].findings])

\* Variant without the sort: the findings stay in category order
sortByConfidence_unsorted(fs) == fs

\* findings.sort((a, b) => (b.confidence || 0) - (a.confidence || 0)), stable
RECURSIVE sortByConfidence(_)
sortByConfidence(fs) ==
  IF Len(fs) = 0 THEN <<>>
  ELSE LET sorted == sortByConfidence(SubSeq(fs, 1, Len(fs) - 1))
           f == fs[Len(fs)]
           k == Cardinality({ i \in 1..Len(sorted) : sorted[i].confidence >= f.confidence })
       IN SubSeq(sorted, 1, k) \o << f >> \o SubSeq(sorted, k + 1, Len(sorted))

\* f.mitigation || f.title : the text is named by the finding it comes from;
\* the empty text is << >>
RenderRecommendation(f) ==
  IF f.mitigation THEN << "mitigation", f.title >>
  ELSE IF f.title # "" THEN << "title", f.title, f.subject >>
  ELSE << >>

\* Variant of generateRecommendations without .slice(0, 5)
generateRecommendations_unsliced(findings) ==
  LET top == sortByConfidence(findings)
  IN SelectSeq([i \in 1..Len(top) |-> RenderRecommendation(top[i])],
               LAMBDA r : r # << >>)

\* sort, slice(0, 5), map, filter(Boolean)
generateRecommendations(findings) ==
  LET top == SubSeq(sortByConfidence(findings), 1,
                    IF Len(findings) < 5 THEN Len(findings) ELSE 5)
  IN SelectSeq([i \in 1..Len(top) |-> RenderRecommendation(top[i])],
               LAMBDA r : r # << >>)

RECURSIVE Distinct(_)
Distinct(s) ==
  IF Len(s) = 0 THEN <<>>
  ELSE LET front == Distinct(SubSeq(s, 1, Len(s) - 1))
       IN IF \E i \in 1..Len(front) : front[i] = s[Len(s)]
          THEN front ELSE Append(front, s[Len(s)])

\* The numbers and labels generateSummary embeds in its text
generateSummary(name, allFindings, criticalFindings, gameTheory) ==
  LET issues == SelectSeq(gameTheory.findings, LAMBDA f : f.confidence > 60)
      \* .map(f => f.gameTheory?.concept).filter(Boolean): undefined and ''
      \* are dropped
      withConcept == SelectSeq(issues, LAMBDA f :
                       IsSome(f.gameTheory) /\ Val(f.gameTheory).concept # "")
      concepts == Distinct([i \in 1..Len(withConcept) |->
                             Val(withConcept[i].gameTheory).concept])
  IN [name |-> name, total |-> Len(allFindings), critical |-> Len(criticalFindings),
      concepts |-> IF Len(issues) > 0
                   THEN Some(SubSeq(concepts, 1,
                          IF Len(concepts) < 3 THEN Len(concepts) ELSE 3))
                   ELSE None]

\* Variant of nashEquilibriaOf that returns the flattened array as it is,
\* empty or not
nashEquilibriaOf_asIs(gameTheory) ==
  LET withEq == SelectSeq(gameTheory.findings, LAMBDA f :
                  IsSome(f.gameTheory) /\ IsSome(Val(f.gameTheory).equilibria))
  IN Some(Flatten([i \in 1..Len(withEq) |-> Val(Val(withEq[i].gameTheory).equilibria)]))

\* gameTheory.findings.filter(f => f.gameTheory?.equilibria)
\*   .flatMap(f => f.gameTheory.equilibria || []), undefined when empty
nashEquilibriaOf(gameTheory) ==
  LET withEq == SelectSeq(gameTheory.findings, LAMBDA f :
                  IsSome(f.gameTheory) /\ IsSome(Val(f.gameTheory).equilibria))
      nashEquilibria == Flatten([i \in 1..Len(withEq) |->
                          Val(Val(withEq[i].gameTheory).equilibria)])
  IN IF Len(nashEquilibria) > 0 THEN Some(nashEquilibria) ELSE None

\* Variant of dominantStrategiesOf that keeps every finding with a strategy,
\* with or without a dominance
dominantStrategiesOf_strategyOnly(gameTheory) ==
  LET withDom == SelectSeq(gameTheory.findings, LAMBDA f :
                   IsSome(f.gameTheory) /\ Val(f.gameTheory).strategy # "")
      dominantStrategies == [i \in 1..Len(withDom) |->
                              << Val(withDom[i].gameTheory).strategy,
                                 Val(withDom[i].gameTheory).dominance >>]
  IN IF Len(dominantStrategies) > 0 THEN Some(dominantStrategies) ELSE None

\* gameTheory.findings.filter(f => f.gameTheory?.strategy && f.gameTheory?.dominance)
\*   .map(f => `${strategy} (${dominance})`), undefined when empty
dominantStrategiesOf(gameTheory) ==
  LET withDom == SelectSeq(gameTheory.findings, LAMBDA f :
                   IsSome(f.gameTheory) /\ Val(f.gameTheory).strategy # ""
                     /\ Val(f.gameTheory).dominance # "")
      dominantStrategies == [i \in 1..Len(withDom) |->
                              << Val(withDom[i].gameTheory).strategy,
                                 Val(withDom[i].gameTheory).dominance >>]
  IN IF Len(dominantStrategies) > 0 THEN Some(dominantStrategies) ELSE None

\* Lines 149-186 of analyzeProtocol, on six category values
Aggregate(data, categories, now) ==
  IF \E k \in KeySet : IsUndefined(categories[k]) \/ "findings" \notin DOMAIN categories[k]
  THEN Thrown("TypeError")
  ELSE
    LET allFindings == allFindingsOf(categories)
        criticalFindings == SelectSeq(allFindings, LAMBDA f : f.confidence > 70)
        gameTheory == categories["gameTheory"]
    IN [protocol |-> data.name,
        address |-> data.address,
        timestamp |-> now,
        overallScore |-> overallScoreOf(categories),
        overallSeverity |-> maxSeverityOf(categories),
        categories |-> categories,
        summary |-> generateSummary(data.name, allFindings, criticalFindings, gameTheory),
        recommendations |-> generateRecommendations(criticalFindings),
        nashEquilibria |-> nashEquilibriaOf(gameTheory),
        dominantStrategies |-> dominantStrategiesOf(gameTheory)]

\* The categories object of analyzeProtocol: the result of each analyzer
\* under its key (an analyzer that throws leaves what it threw)
CategoriesOf(data, now) ==
  [economic |-> EconomicAnalyzer_analyze(data, now),
   governance |-> GovernanceAnalyzer_analyze(data),
   liquidity |-> LiquidityAnalyzer_analyze(data),
   composability |-> ComposabilityAnalyzer_analyze(data),
   mev |-> MEVAnalyzer_analyze(data),
   gameTheory |-> GameTheoryAnalyzer_analyze(data)]

\* The rest of analyzeProtocol on these categories, which it never reaches
\* when an analyzer threw
Completed(data, categories, now) ==
  IF \E k \in KeySet : IsThrown(categories[k])
  THEN Thrown("TypeError")
  ELSE Aggregate(data, categories, now)

\* analyzeProtocol(data) called when the clock reads now
analyzeProtocol(data, now) == Completed(data, CategoriesOf(data, now), now)

\* JS truthiness of data.address and data.name (undefined and "" are falsy)
Truthy(o) == IsSome(o) /\ Len(Val(o)) > 0

\* res.json(report), or the 500 of the catch block when the analysis threw
Respond(report) ==
  IF IsThrown(report)
  THEN [status |-> 500, error |-> "Analysis failed"]
  ELSE [status |-> 200, report |-> report]

\* The route handler of app.post('/api/analyze', x402Middleware, ...)
PostAnalyzeHandler(data, now) ==
  IF ~Truthy(data.address) \/ ~Truthy(data.name)
  THEN [status |-> 400, error |-> "Missing required fields: address, name"]
  ELSE Respond(analyzeProtocol(data, now))

\* The report object of the serverless builds (the Vercel function's own
\* analyzeProtocol and lib/analyze): the same aggregation, except that the
\* findings are taken in category order, unsorted, before slice(0, 5), and
\* the summary names no game-theory concepts
ReportOf(data, categories, now) ==
  LET allFindings == allFindingsOf(categories)
      criticalFindings == SelectSeq(allFindings, LAMBDA f : f.confidence > 70)
      gameTheory == categories["gameTheory"]
      top == SubSeq(criticalFindings, 1,
               IF Len(criticalFindings) < 5 THEN Len(criticalFindings) ELSE 5)
  IN [protocol |-> data.name,
      address |-> data.address,
      timestamp |-> now,
      overallScore |-> overallScoreOf(categories),
      overallSeverity |-> maxSeverityOf(categories),
      categories |-> categories,
      summary |-> [name |-> data.name, total |-> Len(allFindings),
                   critical |-> Len(criticalFindings)],
      recommendations |-> SelectSeq([i \in 1..Len(top) |-> RenderRecommendation(top[i])],
                                    LAMBDA r : r # << >>),
      nashEquilibria |-> nashEquilibriaOf(gameTheory),
      dominantStrategies |-> dominantStrategiesOf(gameTheory)]

\* The report of the serverless builds on these categories, never reached
\* when an analyzer threw
CompletedPlain(data, categories, now) ==
  IF \E k \in KeySet : IsThrown(categories[k])
  THEN Thrown("TypeError")
  ELSE ReportOf(data, categories, now)

\* analyzeProtocol of the Vercel function: five analyzers and a fixed
\* composability category
analyzeProtocol_vercel(data, now) ==
  CompletedPlain(data,
    [economic |-> EconomicAnalyzer_analyze(data, now),
     governance |-> GovernanceAnalyzer_analyze(data),
     liquidity |-> LiquidityAnalyzer_analyze(data),
     composability |-> RiskCategory("Composability Risk", Zero, "low", << >>),
     mev |-> MEVAnalyzer_analyze(data),
     gameTheory |-> GameTheoryAnalyzer_analyze(data)],
    now)

\* analyzeProtocol of lib/analyze, which the Next.js route calls: six analyzers
analyzeProtocol_lib(data, now) == CompletedPlain(data, CategoriesOf(data, now), now)

\* A request header value is truthy when it is present and not empty.  The
\* x-402-payment header is modelled by its length, the only thing the
\* handlers inspect
TruthyPayment(payment) == IsSome(payment) /\ Val(payment) > 0

\* An x-402-receipt header is [empty: it is the empty string, prefix: it
\* starts with 'receipt:', timestamp: parseInt of its second part, None when
\* that is NaN]
TruthyReceipt(receipt) == IsSome(receipt) /\ ~Val(receipt).empty

\* 402 Payment Required
PaymentRequired(error) == [status |-> 402, error |-> error]

\* one hour, the lifetime of a receipt, in seconds
ReceiptLifetime == 3600

\* Variant of x402Middleware that lets any non-empty x-402-payment through
x402Middleware_anyProof(payment, receipt, now) ==
  IF ~TruthyPayment(payment) /\ ~TruthyReceipt(receipt)
  THEN [next |-> FALSE, response |-> PaymentRequired("Payment Required")]
  ELSE IF TruthyPayment(payment)
  THEN [next |-> TRUE, issued |-> Some(now)]
  ELSE IF TruthyReceipt(receipt) /\ Val(receipt).prefix
          /\ IsSome(Val(receipt).timestamp)
          /\ now - Val(Val(receipt).timestamp) < ReceiptLifetime
  THEN [next |-> TRUE, issued |-> None]
  ELSE [next |-> FALSE, response |-> PaymentRequired("Invalid payment proof")]

\* x402Middleware of the Express server, x402 enabled: next is whether the
\* route handler runs, issued the time stamped into the x-402-receipt
\* response header
x402Middleware(payment, receipt, now) ==
  IF ~TruthyPayment(payment) /\ ~TruthyReceipt(receipt)
  THEN [next |-> FALSE, response |-> PaymentRequired("Payment Required")]
  ELSE IF TruthyPayment(payment) /\ Val(payment) >= 64
  THEN [next |-> TRUE, issued |-> Some(now)]
  ELSE IF TruthyReceipt(receipt) /\ Val(receipt).prefix
          /\ IsSome(Val(receipt).timestamp)
          /\ now - Val(Val(receipt).timestamp) < ReceiptLifetime
  THEN [next |-> TRUE, issued |-> None]
  ELSE [next |-> FALSE, response |-> PaymentRequired("Invalid payment proof")]

\* The middleware, then the route handler's answer when next() ran
ExpressRoute(enabled, payment, receipt, now, handled) ==
  IF enabled /\ ~x402Middleware(payment, receipt, now).next
  THEN x402Middleware(payment, receipt, now).response
  ELSE handled

\* POST /api/analyze of the Express server: the middleware, then the route
ExpressPostAnalyze(enabled, payment, receipt, data, now) ==
  ExpressRoute(enabled, payment, receipt, now, PostAnalyzeHandler(data, now))

\* The x402 check the Vercel function and the Next.js route share:
\* !paymentProof || paymentProof.length < 64
PaymentMissing(payment) == ~TruthyPayment(payment) \/ Val(payment) < 64

\* The Vercel function past its payment check: validation, then the analysis
VercelHandler(data, now) ==
  IF ~Truthy(data.address) \/ ~Truthy(data.name)
  THEN [status |-> 400, error |-> "Missing required fields: address, name"]
  ELSE Respond(analyzeProtocol_vercel(data, now))

\* The payment check of the Vercel function, then its answer past the check
VercelRoute(enabled, payment, handled) ==
  IF enabled /\ PaymentMissing(payment)
  THEN PaymentRequired("Payment Required")
  ELSE handled

\* POST /api/analyze of the Vercel function
VercelPostAnalyze(enabled, payment, data, now) ==
  VercelRoute(enabled, payment, VercelHandler(data, now))

\* POST of the Next.js route app/api/analyze once request.json() has handed
\* it the body: validation, then the analysis, at the clock of that moment
NextHandler(data, now) ==
  IF ~Truthy(data.address) \/ ~Truthy(data.name)
  THEN [status |-> 400, error |-> "Missing required fields: address, name"]
  ELSE Respond(analyzeProtocol_lib(data, now))

\* ------------------------------------------------------------------------
\* Inputs: the ProtocolData records a caller may submit
\* ------------------------------------------------------------------------
Str_DeFi == << "D", "e", "F", "i" >>
Str_AaveBridge == << "A", "a", "v", "e", " ", "B", "r", "i", "d", "g", "e" >>
Str_Demo1 == << "D", "e", "m", "o", "1" >>
Str_SOL == << "S", "O", "L" >>
Str_DEMO == << "D", "E", "M", "O" >>
Str_wBTC == << "w", "B", "T", "C" >>

\* (address, name): both present, or one of them absent
Identities ==
  { << Some(Str_Demo1), Some(Str_DeFi) >>,
    << Some(Str_Demo1), Some(Str_AaveBridge) >>,
    << None, Some(Str_DeFi) >>,
    << Some(Str_Demo1), None >> }

TvlValues == { None, Some(100), Some(60000) }

Pool(t0, t1, liquidity, volume24h, fees) ==
  [token0 |-> t0, token1 |-> t1, liquidity |-> liquidity,
   volume24h |-> volume24h, fees |-> fees]

\* the first pool of the demo protocol, and a deep low-fee stablecoin pool
PoolValues ==
  { Pool(Str_SOL, Str_DEMO, 50, 45, 30),
    Pool(Str_wBTC, Str_USDC, 1200, 400, 10) }

RECURSIVE SeqsUpTo(_, _)
SeqsUpTo(S, n) ==
  IF n = 0 THEN { <<>> }
  ELSE LET shorter == SeqsUpTo(S, n - 1)
       IN shorter \cup { Append(q, x) : q \in { r \in shorter : Len(r) = n - 1 }, x \in S }

PoolsValues == { None } \cup { Some(q) : q \in SeqsUpTo(PoolValues, MaxPools) }

Governance(quorum, votingPeriod, timelockDelay, proposalThreshold, topHolderVotingPower) ==
  [quorum |-> quorum, votingPeriod |-> votingPeriod, timelockDelay |-> timelockDelay,
   proposalThreshold |-> proposalThreshold, topHolderVotingPower |-> topHolderVotingPower]

GovernanceValues ==
  { None,
    \* the demo protocol: quorum 3%, 2 days, 12 hours, 1%, 45%
    Some(Governance(300, 2 * 24 * 3600, 12 * 3600, 100, 4500)),
    \* only the quorum is weak
    Some(Governance(300, 7 * 24 * 3600, 72 * 3600, 100, 1000)),
    \* blocking minority under a high quorum, high proposal threshold
    Some(Governance(2500, 7 * 24 * 3600, 72 * 3600, 600, 4000)) }

Tokenomics(circulatingSupply, emissionRate, concentration, vestingSchedule) ==
  [totalSupply |-> 1000000, circulatingSupply |-> circulatingSupply,
   emissionRate |-> emissionRate, concentration |-> concentration,
   vestingSchedule |-> vestingSchedule]

VestingEvent(timestamp, amount) ==
  [timestamp |-> timestamp, amount |-> amount, recipient |-> "team"]

TokenomicsValues ==
  { None,
    \* concentration 0.9 and nothing else
    Some(Tokenomics(250000, None, Some(9000), None)),
    \* emission of 200k tokens an hour, concentration 0.75
    Some(Tokenomics(250000, Some(200), Some(7500), None)),
    \* one unlock of 12% of circulating supply, 10 days after time 0
    Some(Tokenomics(250000, None, None,
           Some(<< VestingEvent(10 * 24 * 3600, 30000) >>))),
    \* two unlocks of 6% each, 20 and 25 days after time 0
    Some(Tokenomics(250000, None, None,
           Some(<< VestingEvent(20 * 24 * 3600, 15000),
                   VestingEvent(25 * 24 * 3600, 15000) >>))) }

Inputs ==
  { [address |-> id[1], name |-> id[2], tvl |-> tvl, tokenomics |-> tok,
     governance |-> gov, pools |-> pools] :
      id \in Identities, tvl \in TvlValues, tok \in TokenomicsValues,
      gov \in GovernanceValues, pools \in PoolsValues }

\* ------------------------------------------------------------------------
\* State
\* ------------------------------------------------------------------------
VARIABLES
  data,     \* the ProtocolData record the caller holds
  now,      \* the clock, Date.now() in seconds since time 0
  last,     \* the latest completed analyzeProtocol call: at, out
  prev,     \* the completed analyzeProtocol call before it
  response, \* the latest response of POST /api/analyze
  slots,    \* an evaluation of the six analyzers in arbitrary order: key -> result
  parOut,   \* what that evaluation returned once aggregated
  x402Enabled, \* x402Config.enabled, read from the environment at start
  pending   \* the requests of the Next.js route that await their body

vars == << data, now, last, prev, response, slots, parOut, x402Enabled, pending >>

\* the clock advances in steps of 15 days
TickSeconds == 15 * 24 * 3600

NoCall == [op |-> "none"]

Init ==
  /\ data \in Inputs
  /\ now = 0
  /\ last = NoCall
  /\ prev = NoCall
  /\ response = None
  /\ slots = [k \in KeySet |-> None]
  /\ parOut = None
  /\ x402Enabled = FALSE
  /\ pending = {}

\* Time passes between requests
Tick ==
  /\ now < MaxTicks * TickSeconds
  /\ now' = now + TickSeconds
  /\ UNCHANGED << x402Enabled, pending, data, last, prev, response, slots, parOut >>

\* Variant of the call in which the largest pool is found by sorting
\* protocol.pools in place, by descending liquidity
RECURSIVE SortedByLiquidity(_)
SortedByLiquidity(pools) ==
  IF Len(pools) = 0 THEN << >>
  ELSE LET sorted == SortedByLiquidity(SubSeq(pools, 1, Len(pools) - 1))
           p == pools[Len(pools)]
           k == Cardinality({ i \in 1..Len(sorted) : sorted[i].liquidity >= p.liquidity })
       IN SubSeq(sorted, 1, k) \o << p >> \o SubSeq(sorted, k + 1, Len(sorted))

CallAnalyzeProtocol_sortsPools ==
  /\ last' = [op |-> "analyzeProtocol", at |-> now, out |-> analyzeProtocol(data, now)]
  /\ prev' = last
  /\ data' = IF IsSome(data.pools)
             THEN [data EXCEPT !.pools = Some(SortedByLiquidity(Val(data.pools)))]
             ELSE data
  /\ UNCHANGED << x402Enabled, pending, now, response, slots, parOut >>

\* A caller invokes the exported analyzeProtocol(data) directly
CallAnalyzeProtocol ==
  /\ last' = [op |-> "analyzeProtocol", at |-> now, out |-> analyzeProtocol(data, now)]
  /\ prev' = last
  /\ UNCHANGED << x402Enabled, pending, data, now, response, slots, parOut >>

Next == Tick \/ CallAnalyzeProtocol

Spec == Init /\ [][Next]_vars

\* The report a completed call handed back, if it handed one back
HasReport(call) == call.op = "analyzeProtocol" /\ ~IsThrown(call.out)

ValidInput(d) == IsSome(d.address) /\ IsSome(d.name)

\* ------------------------------------------------------------------------
\* The HTTP endpoint
\* ------------------------------------------------------------------------
\* The x-402-payment values a client may send: absent, empty, 63 and 64
\* characters
PaymentValues == { None, Some(0), Some(63), Some(64) }

Receipt(empty, prefix, timestamp) ==
  [empty |-> empty, prefix |-> prefix, timestamp |-> timestamp]

\* The x-402-receipt values a client may send to the Express server: absent,
\* the empty string, one without the 'receipt:' prefix, one whose timestamp
\* does not parse, one stamped at time 0 and one stamped at the first tick
ReceiptValues ==
  { None,
    Some(Receipt(TRUE, FALSE, None)),
    Some(Receipt(FALSE, FALSE, None)),
    Some(Receipt(FALSE, TRUE, None)),
    Some(Receipt(FALSE, TRUE, Some(0))),
    Some(Receipt(FALSE, TRUE, Some(TickSeconds))) }

\* The x-402-receipt values sent to the Vercel function and the Next.js
\* route, which never read the header: absent, and one stamped at time 0
ServerlessReceiptValues == { None, Some(Receipt(FALSE, TRUE, Some(0))) }

\* The bodies posted to the endpoint: any identity, with or without the
\* first pool of the demo protocol
HttpInputs ==
  { d \in Inputs : /\ ~IsSome(d.tvl) /\ ~IsSome(d.tokenomics) /\ ~IsSome(d.governance)
                   /\ d.pools \in { None, Some(<< Pool(Str_SOL, Str_DEMO, 50, 45, 30) >>) } }

\* The server starts with X402_ENABLED set to 'true' or not
InitHttp ==
  /\ data \in HttpInputs
  /\ now = 0
  /\ last = NoCall
  /\ prev = NoCall
  /\ response = None
  /\ slots = [k \in KeySet |-> None]
  /\ parOut = None
  /\ x402Enabled \in BOOLEAN
  /\ pending = {}

\* The response to the request with these headers, received at time at
Response(server, at, payment, receipt, body) ==
  [server |-> server, at |-> at, payment |-> payment, receipt |-> receipt,
   body |-> body]

\* The Express server answers a request whose route handler, if the
\* middleware lets it run, answers handled
ExpressAnswers(handled) ==
  \E payment \in PaymentValues, receipt \in ReceiptValues :
    response' = Some(Response("express", now, payment, receipt,
                       ExpressRoute(x402Enabled, payment, receipt, now, handled)))

\* A client posts data to /api/analyze of the Express server
PostAnalyze ==
  /\ ExpressAnswers(PostAnalyzeHandler(data, now))
  /\ UNCHANGED << x402Enabled, pending, data, now, last, prev, slots, parOut >>

\* The Vercel function answers a request that, past the payment check, is
\* answered handled
VercelAnswers(handled) ==
  \E payment \in PaymentValues, receipt \in ServerlessReceiptValues :
    response' = Some(Response("vercel", now, payment, receipt,
                       VercelRoute(x402Enabled, payment, handled)))

\* A client posts data to /api/analyze of the Vercel function
PostAnalyzeVercel ==
  /\ VercelAnswers(VercelHandler(data, now))
  /\ UNCHANGED << x402Enabled, pending, data, now, last, prev, slots, parOut >>

\* A client posts data to /api/analyze of the Next.js route: POST answers 402
\* at once when the payment check fails, and otherwise awaits request.json(),
\* which returns control to the event loop
PostAnalyzeNext ==
  /\ Cardinality(pending) < MaxInFlight
  /\ \E payment \in PaymentValues, receipt \in ServerlessReceiptValues :
       IF x402Enabled /\ PaymentMissing(payment)
       THEN /\ response' = Some(Response("next", now, payment, receipt,
                                  PaymentRequired("Payment Required")))
            /\ pending' = pending
       ELSE /\ pending' = pending \cup { [at |-> now, payment |-> payment,
                                          receipt |-> receipt] }
            /\ response' = response
  /\ UNCHANGED << x402Enabled, data, now, last, prev, slots, parOut >>

\* request.json() hands a waiting POST of the Next.js route its body: the
\* route validates it, runs the analysis and answers
PostAnalyzeNextBody ==
  /\ \E r \in pending :
       /\ response' = Some(Response("next", r.at, r.payment, r.receipt,
                             NextHandler(data, now)))
       /\ pending' = pending \ { r }
  /\ UNCHANGED << x402Enabled, data, now, last, prev, slots, parOut >>

NextHttp ==
  Tick \/ PostAnalyze \/ PostAnalyzeVercel \/ PostAnalyzeNext \/ PostAnalyzeNextBody

SpecHttp == InitHttp /\ [][NextHttp]_vars

\* ------------------------------------------------------------------------
\* The six analyzer calls of analyzeProtocol, taken in any order
\* ------------------------------------------------------------------------
\* Analyzer k runs to completion and its result lands in its own slot
RunAnalyzer(k) ==
  /\ slots[k] = None
  /\ slots' = [slots EXCEPT ![k] = Some(Analyze(k, data, now))]
  /\ UNCHANGED << x402Enabled, pending, data, now, last, prev, response, parOut >>

\* All six have completed: the rest of analyzeProtocol runs on their results,
\* unless one of them threw
AggregatePar ==
  /\ \A k \in KeySet : slots[k] # None
  /\ parOut = None
  /\ parOut' = Some(Completed(data, [k \in KeySet |-> Val(slots[k])], now))
  /\ UNCHANGED << x402Enabled, pending, data, now, last, prev, response, slots >>

NextPar == (\E k \in KeySet : RunAnalyzer(k)) \/ AggregatePar

SpecPar == Init /\ [][NextPar]_vars

\* ------------------------------------------------------------------------
\* The six analyzer calls taken in any order while time passes, next to
\* calls of analyzeProtocol itself
\* ------------------------------------------------------------------------
\* The demo protocol with or without its first pool, with every tokenomics
OrderInputs ==
  { d \in Inputs : /\ d.address = Some(Str_Demo1) /\ d.name = Some(Str_DeFi)
                   /\ ~IsSome(d.tvl) /\ ~IsSome(d.governance)
                   /\ d.pools \in { None, Some(<< Pool(Str_SOL, Str_DEMO, 50, 45, 30) >>) } }

InitOrder ==
  /\ data \in OrderInputs
  /\ now = 0
  /\ last = NoCall
  /\ prev = NoCall
  /\ response = None
  /\ slots = [k \in KeySet |-> None]
  /\ parOut = None
  /\ x402Enabled = FALSE
  /\ pending = {}

NextOrder ==
  Tick \/ (\E k \in KeySet : RunAnalyzer(k)) \/ AggregatePar \/ CallAnalyzeProtocol

SpecOrder == InitOrder /\ [][NextOrder]_vars

\* ------------------------------------------------------------------------
\* GovernanceAnalyzer.analyze on governance parameters around its thresholds
\* ------------------------------------------------------------------------
\* quorum, timelockDelay, topHolderVotingPower and proposalThreshold below,
\* at and above each threshold the analyzer compares them with
GovernanceGrid ==
  { Governance(q, 2 * 24 * 3600, t, p, h) :
      q \in { 300, 400, 999, 1000 },
      t \in { 12 * 3600, 24 * 3600 - 1, 24 * 3600 },
      p \in { 100, 500, 501 },
      h \in { 3300, 3301, 4500, 5000, 5001 } }

GovernanceInputs ==
  { [address |-> Some(Str_Demo1), name |-> Some(Str_DeFi), tvl |-> None,
     tokenomics |-> None, governance |-> Some(g), pools |-> None] :
      g \in GovernanceGrid }

InitGov ==
  /\ data \in GovernanceInputs
  /\ now = 0
  /\ last = NoCall
  /\ prev = NoCall
  /\ response = None
  /\ slots = [k \in KeySet |-> None]
  /\ parOut = None
  /\ x402Enabled = FALSE
  /\ pending = {}

NextGov == RunAnalyzer("governance")

SpecGov == InitGov /\ [][NextGov]_vars

\* ------------------------------------------------------------------------
\* MEVAnalyzer.analyze on pools around the thresholds of its pool rules
\* ------------------------------------------------------------------------
\* liquidity of $400k and $2M, volume of 0.2, 0.4 and 0.6 times the
\* liquidity, fees of 0.1% and 0.3%
PoolGrid ==
  { Pool(Str_SOL, Str_DEMO, liq, (liq * ratio) \div 10, fees) :
      liq \in { 400, 2000 }, ratio \in { 2, 4, 6 }, fees \in { 10, 30 } }

PoolGridInputs ==
  { [address |-> Some(Str_Demo1), name |-> Some(Str_DeFi), tvl |-> None,
     tokenomics |-> None, governance |-> None, pools |-> pools] :
      pools \in { None } \cup { Some(q) : q \in SeqsUpTo(PoolGrid, MaxPools) } }

InitPools ==
  /\ data \in PoolGridInputs
  /\ now = 0
  /\ last = NoCall
  /\ prev = NoCall
  /\ response = None
  /\ slots = [k \in KeySet |-> None]
  /\ parOut = None
  /\ x402Enabled = FALSE
  /\ pending = {}

NextPools == RunAnalyzer("mev")

SpecPools == InitPools /\ [][NextPools]_vars

\* ------------------------------------------------------------------------
\* EconomicAnalyzer.analyze on the combinations of its four checks
\* ------------------------------------------------------------------------
\* tokenomics: absent; concentration 0.9 alone; hyperinflation alone (200k
\* tokens an hour on 250M); high emission (20k an hour) with concentration
\* 0.75; hyperinflation with concentration 0.9; one unlock of 12% in 10 days
EconomicTokenomics ==
  { None,
    Some(Tokenomics(250000, None, Some(9000), None)),
    Some(Tokenomics(250000, Some(200), None, None)),
    Some(Tokenomics(250000, Some(20), Some(7500), None)),
    Some(Tokenomics(250000, Some(200), Some(9000), None)),
    Some(Tokenomics(250000, None, None, Some(<< VestingEvent(10 * 24 * 3600, 30000) >>))) }

\* a thin pool turning over its liquidity daily, the thin demo pool at 0.9,
\* and a deep quiet pool
EconomicPools ==
  { Pool(Str_SOL, Str_DEMO, 50, 50, 30),
    Pool(Str_SOL, Str_DEMO, 50, 45, 30),
    Pool(Str_wBTC, Str_USDC, 2000, 400, 10) }

EconomicInputs ==
  { [address |-> Some(Str_Demo1), name |-> Some(Str_DeFi), tvl |-> None,
     tokenomics |-> tok, governance |-> None, pools |-> pools] :
      tok \in EconomicTokenomics,
      pools \in { None } \cup { Some(q) : q \in SeqsUpTo(EconomicPools, MaxPools) } }

InitEcon ==
  /\ data \in EconomicInputs
  /\ now = 0
  /\ last = NoCall
  /\ prev = NoCall
  /\ response = None
  /\ slots = [k \in KeySet |-> None]
  /\ parOut = None
  /\ x402Enabled = FALSE
  /\ pending = {}

NextEcon == RunAnalyzer("economic")

SpecEcon == InitEcon /\ [][NextEcon]_vars

\* analyzeProtocol on the same inputs
NextEconReport == CallAnalyzeProtocol

SpecEconReport == InitEcon /\ [][NextEconReport]_vars

\* ------------------------------------------------------------------------
\* analyzeTokenomics on vesting schedules around its window and threshold
\* ------------------------------------------------------------------------
\* unlocks of 5%, 10% and 12% of a circulating supply of 250M tokens, at
\* time 0, 10 days later and 30 days later
VestingEvents ==
  { VestingEvent(t, a) : t \in { 0, 10 * 24 * 3600, 30 * 24 * 3600 },
                         a \in { 12500, 25000, 30000 } }

\* schedules of at most two unlocks
VestingGrid ==
  { None } \cup
  { Some(Tokenomics(250000, None, None, v)) :
      v \in { None } \cup { Some(q) : q \in SeqsUpTo(VestingEvents, 2) } }

VestingInputs ==
  { [address |-> Some(Str_Demo1), name |-> Some(Str_DeFi), tvl |-> None,
     tokenomics |-> tok, governance |-> None, pools |-> None] :
      tok \in VestingGrid }

InitVest ==
  /\ data \in VestingInputs
  /\ now = 0
  /\ last = NoCall
  /\ prev = NoCall
  /\ response = None
  /\ slots = [k \in KeySet |-> None]
  /\ parOut = None
  /\ x402Enabled = FALSE
  /\ pending = {}

NextVest == Tick \/ CallAnalyzeProtocol

SpecVest == InitVest /\ [][NextVest]_vars

\* ------------------------------------------------------------------------
\* The caller reorders its pools between two scoring calls
\* ------------------------------------------------------------------------
\* pools with the entries at positions i and j exchanged
Swapped(pools, i, j) ==
  [k \in 1..Len(pools) |-> IF k = i THEN pools[j] ELSE IF k = j THEN pools[i] ELSE pools[k]]

ReorderPools ==
  /\ IsSome(data.pools)
  /\ \E i, j \in 1..Len(Val(data.pools)) :
       /\ i < j
       /\ data' = [data EXCEPT !.pools = Some(Swapped(Val(data.pools), i, j))]
  /\ UNCHANGED << x402Enabled, pending, now, last, prev, response, slots, parOut >>

\* three thin pools whose daily turnovers (0.24, 2.24 and 0.22) average 0.9
ReorderPoolValues ==
  { Pool(Str_SOL, Str_DEMO, 25, 6, 30),
    Pool(Str_SOL, Str_DEMO, 25, 56, 30),
    Pool(Str_SOL, Str_DEMO, 50, 11, 30) }

\* one pool more than the other inputs carry
MaxReorderPools == MaxPools + 1

ReorderInputs ==
  { [address |-> Some(Str_Demo1), name |-> Some(Str_DeFi), tvl |-> None,
     tokenomics |-> None, governance |-> None, pools |-> pools] :
      pools \in { None } \cup { Some(q) : q \in SeqsUpTo(ReorderPoolValues, MaxReorderPools) } }

InitReorder ==
  /\ data \in ReorderInputs
  /\ now = 0
  /\ last = NoCall
  /\ prev = NoCall
  /\ response = None
  /\ slots = [k \in KeySet |-> None]
  /\ parOut = None
  /\ x402Enabled = FALSE
  /\ pending = {}

NextReorder == CallAnalyzeProtocol \/ ReorderPools

SpecReorder == InitReorder /\ [][NextReorder]_vars

\* ------------------------------------------------------------------------
\* Properties
\* ------------------------------------------------------------------------
\* The breakpoints as the documentation states them
Breakpoint(score) ==
  IF FLess(score, FromInt(3)) THEN "low"
  ELSE IF FLess(score, FromInt(6)) THEN "medium"
  ELSE IF FLess(score, FromInt(8)) THEN "high"
  ELSE "critical"

SeverityRank(s) ==
  CASE s = "low" -> 0 [] s = "medium" -> 1 [] s = "high" -> 2 [] s = "critical" -> 3

\* a double of the model is zero or positive by its form
InRange0to10(x) ==
  /\ x.m \in (0..16383) \X (0..16383) \X (0..16383) \X (0..2047)
  /\ ~FLess(FromInt(10), x)

\* whether the double x is a whole number
IsWhole(x) == FromInt(MathFloor(x)) = x

\* C1: for every input with address and name present, each of the six
\* categories of the report has a score within [0,10] and the severity the
\* breakpoints give for that score (< 3 low, < 6 medium, < 8 high, else
\* critical).
C1_CategoryScoreAndSeverity ==
  (HasReport(last) /\ ValidInput(data)) =>
    \A k \in KeySet :
      LET c == last.out.categories[k]
      IN InRange0to10(c.score) /\ c.severity = Breakpoint(c.score)

\* a report with a category exactly on a breakpoint (governance 8, critical)
\* next to a category with a fractional score
C1_Witness ==
  /\ HasReport(last) /\ ValidInput(data)
  /\ last.out.categories["governance"].score = FromInt(8)
  /\ last.out.categories["governance"].severity = "critical"
  /\ \E k \in KeySet : ~IsWhole(last.out.categories[k].score)
  /\ \E k \in KeySet : last.out.categories[k].severity = "medium"

\* C2: in every report overallSeverity is the highest-ranked severity among
\* the six categories (low < medium < high < critical): no category ranks
\* above it and some category has it.
C2_OverallSeverityIsMax ==
  HasReport(last) =>
    /\ \A k \in KeySet : SeverityRank(last.out.categories[k].severity)
                           <= SeverityRank(last.out.overallSeverity)
    /\ \E k \in KeySet : last.out.categories[k].severity = last.out.overallSeverity

\* one critical category, the five others low, overall critical
C2_Witness ==
  /\ HasReport(last)
  /\ last.out.categories["governance"].severity = "critical"
  /\ \A k \in KeySet \ { "governance" } : last.out.categories[k].severity = "low"
  /\ last.out.overallSeverity = "critical"

\* the weighted sum of the category scores under the documented weights
DocumentedWeight(k) ==
  CASE k = "economic" -> 20 [] k = "governance" -> 15 [] k = "liquidity" -> 20
    [] k = "composability" -> 10 [] k = "mev" -> 10 [] k = "gameTheory" -> 25

\* Exact arithmetic on the natural numbers in eight limbs
BigOfInt(n) ==
  << n % 16384, (n \div 16384) % 16384, n \div 268435456, 0, 0, 0, 0, 0 >>

\* N * k for a whole number k below 2^16
BigTimes(N, k) ==
  LET p1 == N[1] * k
      p2 == N[2] * k + (p1 \div 16384)
      p3 == N[3] * k + (p2 \div 16384)
      p4 == N[4] * k + (p3 \div 16384)
      p5 == N[5] * k + (p4 \div 16384)
      p6 == N[6] * k + (p5 \div 16384)
      p7 == N[7] * k + (p6 \div 16384)
      p8 == N[8] * k + (p7 \div 16384)
  IN << p1 % 16384, p2 % 16384, p3 % 16384, p4 % 16384,
        p5 % 16384, p6 % 16384, p7 % 16384, p8 % 16384 >>

RECURSIVE BigLeqFrom(_, _, _)
BigLeqFrom(X, Y, i) ==
  IF i = 0 THEN TRUE
  ELSE IF X[i] # Y[i] THEN X[i] < Y[i]
  ELSE BigLeqFrom(X, Y, i - 1)

BigLeq(X, Y) == BigLeqFrom(X, Y, 8)

\* the smallest exponent among the scores that are not zero
MinExponent(categories) ==
  LET es == { categories[k].score.e : k \in { j \in KeySet : ~IsZero(categories[j].score) } }
  IN IF es = {} THEN 0 ELSE CHOOSE e \in es : \A f \in es : e <= f

\* 100 * 2^(-E) times the weighted sum of the category scores under the
\* documented weights, in exact arithmetic: a natural number
WeightedSum(categories, E) ==
  LET term(k) == IF IsZero(categories[k].score) THEN BigOfInt(0)
                 ELSE BigTimes(ShiftLeft(categories[k].score.m,
                                         categories[k].score.e - E),
                               DocumentedWeight(k))
  IN BigAdd(BigAdd(BigAdd(term("economic"), term("governance")),
                   BigAdd(term("liquidity"), term("composability"))),
            BigAdd(term("mev"), term("gameTheory")))

\* the whole number of tenths n, on the same scale: 100 * 2^(-E) * (n / 10)
Tenths(n, E) == ShiftLeft(BigOfInt(10 * n), 0 - E)

\* the number of tenths of a double with one decimal
TenthsOf(r) == MathRound(FMul(r, FromInt(10)))

\* C3: in every report overallScore is the weighted sum of the six category
\* scores (weights 0.20, 0.15, 0.20, 0.10, 0.10, 0.25, summing to 1) rounded
\* to one decimal place: it is the double of a number of tenths, lies within
\* 0.05 of the exact weighted sum of the reported scores, up to the rounding
\* error of the double additions and multiplications (less than 2^-40), and
\* is within [0,10].
C3_OverallScoreIsRoundedWeightedSum ==
  /\ \A k \in KeySet : weights(k) = DocumentedWeight(k)
  /\ SumSeq([i \in 1..Len(CategoryKeys) |-> weights(CategoryKeys[i])]) = 100
  /\ HasReport(last) =>
       LET r == last.out.overallScore
           t == TenthsOf(r)
           E == MinExponent(last.out.categories)
           sum == WeightedSum(last.out.categories, E)
           half == ShiftLeft(BigOfInt(5), 0 - E)
           slack == IF E < -40 THEN ShiftLeft(BigOfInt(100), -40 - E) ELSE BigOfInt(0)
       IN /\ r = Dec(t, 10)
          /\ BigLeq(sum, BigAdd(BigAdd(Tenths(t, E), half), slack))
          /\ BigLeq(Tenths(t, E), BigAdd(BigAdd(sum, half), slack))
          /\ InRange0to10(r)

\* a report whose weighted sum is above 3 and is no whole number of tenths,
\* so that the rounding acted
C3_Witness ==
  /\ HasReport(last)
  /\ LET r == last.out.overallScore
         E == MinExponent(last.out.categories)
     IN /\ WeightedSum(last.out.categories, E) # Tenths(TenthsOf(r), E)
        /\ FLess(FromInt(3), r)

\* C4 as stated: in every report overallSeverity is the breakpoint function
\* applied to overallScore.
C4_OverallSeverityFromOverallScore ==
  HasReport(last) => last.out.overallSeverity = Breakpoint(last.out.overallScore)

\* C4 amended: in every report overallSeverity is the breakpoint function
\* applied to the highest category score, and it is never ranked below the
\* breakpoint function applied to overallScore.
C4_OverallSeverityFromHighestScore ==
  HasReport(last) =>
    /\ \E k \in KeySet :
         /\ \A j \in KeySet : ~FLess(last.out.categories[k].score,
                                     last.out.categories[j].score)
         /\ last.out.overallSeverity = Breakpoint(last.out.categories[k].score)
    /\ SeverityRank(last.out.overallSeverity)
         >= SeverityRank(Breakpoint(last.out.overallScore))

\* a report whose overallSeverity ranks above the breakpoint of its overallScore
C4_Witness ==
  /\ HasReport(last)
  /\ SeverityRank(last.out.overallSeverity)
       > SeverityRank(Breakpoint(last.out.overallScore))

TwoReports == HasReport(prev) /\ HasReport(last)

\* C5: for every valid input, two scoring calls made at any two points in
\* time return identical categories (scores, severities and finding content);
\* only the report's timestamp may differ.
C5_SameCategoriesAtAnyTime ==
  (TwoReports /\ ValidInput(data)) => prev.out.categories = last.out.categories

C7_RefusesMissingAddressOrName ==
  (last.op = "analyzeProtocol" /\ ~ValidInput(data)) =>
    IsThrown(last.out) /\ last.out.thrown = "MissingRequiredField"

RiskCategoryFields == { "name", "score", "severity", "findings" }

\* C8: for every input with address and name present each analyzer returns a
\* RiskCategory and raises no error, whichever of tvl, tokenomics, governance
\* and pools are absent.
C8_AnalyzersNeverRaise ==
  ValidInput(data) =>
    \A k \in KeySet :
      slots[k] # None =>
        /\ ~IsThrown(Val(slots[k]))
        /\ DOMAIN Val(slots[k]) = RiskCategoryFields
        /\ Val(slots[k]).severity \in { "low", "medium", "high", "critical" }

\* all six analyzers have returned on an input with every optional section absent
C8_Witness ==
  /\ ValidInput(data)
  /\ ~IsSome(data.tvl) /\ ~IsSome(data.tokenomics)
  /\ ~IsSome(data.governance) /\ ~IsSome(data.pools)
  /\ \A k \in KeySet : slots[k] # None /\ ~IsThrown(Val(slots[k]))

\* C10: whenever the input has no governance object, the governance category
\* has score 0, severity low and exactly one finding, of confidence 0.3.
C10_GovernanceAbsent ==
  (HasReport(last) /\ ~IsSome(data.governance)) =>
    LET g == last.out.categories["governance"]
    IN /\ g.score = Zero
       /\ g.severity = "low"
       /\ Len(g.findings) = 1
       /\ g.findings[1].confidence = 30

\* a report on an input without governance whose other sections are present
C10_Witness ==
  /\ HasReport(last) /\ ~IsSome(data.governance)
  /\ IsSome(data.tokenomics) /\ IsSome(data.pools) /\ Len(Val(data.pools)) > 0
  /\ Len(last.out.categories["governance"].findings) = 1

\* the input has no pools: pools absent or an empty sequence
ZeroPools(d) == ~IsSome(d.pools) \/ Len(Val(d.pools)) = 0

\* C11: for every input with zero pools, no tokenomics and no governance,
\* whatever its name and tvl, each of the six categories has severity low and
\* overallSeverity is low.
C11_BareInputAllLow ==
  (HasReport(last) /\ ZeroPools(data) /\ ~IsSome(data.tokenomics)
     /\ ~IsSome(data.governance)) =>
    /\ \A k \in KeySet : last.out.categories[k].severity = "low"
    /\ last.out.overallSeverity = "low"

\* the name keywords that alone make the composability analyzer emit a finding
ClassKeywords ==
  { Str_yield, Str_vault, Str_farm, Str_staked, Str_liquid, Str_lst, Str_perp,
    Str_option, Str_synthetic, Str_bridge, Str_wormhole, Str_layerzero, Str_cross }

\* C11 amended: for every input with zero pools, no tokenomics, no
\* governance and no tvl, whose name contains none of the yield, staking,
\* derivative or bridge keywords, each of the six categories has severity low
\* and overallSeverity is low.
C11_BareInputNoTvlPlainNameAllLow ==
  (HasReport(last) /\ ZeroPools(data) /\ ~IsSome(data.tokenomics)
     /\ ~IsSome(data.governance) /\ ~IsSome(data.tvl)
     /\ ~NameMatches(data, ClassKeywords)) =>
    /\ \A k \in KeySet : last.out.categories[k].severity = "low"
    /\ last.out.overallSeverity = "low"

\* a report on such an input whose pools are an empty sequence
C11_Witness ==
  /\ HasReport(last) /\ ~IsSome(data.tokenomics) /\ ~IsSome(data.governance)
  /\ ~IsSome(data.tvl) /\ ~NameMatches(data, ClassKeywords)
  /\ IsSome(data.pools) /\ Len(Val(data.pools)) = 0
  /\ last.out.overallSeverity = "low"
  /\ Len(last.out.categories["composability"].findings) = 0

\* the findings of all six categories whose confidence exceeds 0.7
HighConfidenceFindings(report) ==
  SelectSeq(Flatten([i \in 1..Len(CategoryKeys) |->
                       report.categories[CategoryKeys[i]].findings]),
            LAMBDA f : f.confidence > 70)

\* C12: in every report recommendations has at most 5 entries and every
\* entry is a non-empty text.
C12_AtMostFiveNonEmptyRecommendations ==
  HasReport(last) =>
    /\ Len(last.out.recommendations) <= 5
    /\ \A i \in 1..Len(last.out.recommendations) :
         LET r == last.out.recommendations[i]
         IN r # << >> /\ Len(r) >= 2 /\ r[2] # ""

\* a report with more than five high-confidence findings and five recommendations
C12_Witness ==
  /\ HasReport(last)
  /\ Len(HighConfidenceFindings(last.out)) > 5
  /\ Len(last.out.recommendations) = 5

\* the text the documentation gives a finding: its mitigation, else its title
DocumentedText(f) ==
  IF f.mitigation THEN << "mitigation", f.title >> ELSE << "title", f.title, f.subject >>

CountOf(seq, x) == Cardinality({ i \in 1..Len(seq) : seq[i] = x })

\* C13: recommendations are the 5 highest-confidence findings (all when
\* fewer) among the findings of all six categories with confidence > 0.7, in
\* non-increasing confidence order, each rendered as its mitigation text or
\* else its title: position i holds the text of a finding of confidence c[i],
\* c is non-increasing, every finding above the last listed confidence is
\* listed as often as it occurs, and no text is listed more often than it
\* occurs.
C13_TopFiveByConfidence ==
  HasReport(last) =>
    LET hc == HighConfidenceFindings(last.out)
        texts == [j \in 1..Len(hc) |-> DocumentedText(hc[j])]
        recs == last.out.recommendations
        n == IF Len(hc) < 5 THEN Len(hc) ELSE 5
        conf(r) == hc[CHOOSE j \in 1..Len(hc) : texts[j] = r].confidence
    IN /\ Len(recs) = n
       /\ \A i \in 1..n : \E j \in 1..Len(hc) : texts[j] = recs[i]
       /\ \A i \in 1..(n - 1) : conf(recs[i]) >= conf(recs[i + 1])
       /\ \A j \in 1..Len(hc) :
            /\ CountOf(recs, texts[j]) <= CountOf(texts, texts[j])
            /\ (Len(hc) <= 5 \/ hc[j].confidence > conf(recs[n])) =>
                 CountOf(recs, texts[j]) = CountOf(texts, texts[j])

\* more than five candidates that are not already in confidence order, a
\* candidate after the fifth outranking one of the first five
C13_Witness ==
  /\ HasReport(last)
  /\ LET hc == HighConfidenceFindings(last.out)
     IN /\ Len(hc) > 5
        /\ \E i \in 1..(Len(hc) - 1) : hc[i].confidence < hc[i + 1].confidence
        /\ \E j \in 6..Len(hc) : \E i \in 1..5 : hc[j].confidence > hc[i].confidence
  /\ Len(last.out.recommendations) = 5

\* the game-theory findings of a report that carry an equilibria list
EquilibriaCarriers(report) ==
  SelectSeq(report.categories["gameTheory"].findings, LAMBDA f :
    IsSome(f.gameTheory) /\ IsSome(Val(f.gameTheory).equilibria))

\* C14: nashEquilibria is undefined, never an empty array, exactly when no
\* game-theory finding carries an equilibria list, and otherwise is the
\* concatenation of those lists in finding order; dominantStrategies is
\* undefined exactly when no game-theory finding carries both strategy and
\* dominance.
C14_InsightsUndefinedWhenEmpty ==
  HasReport(last) =>
    LET carriers == EquilibriaCarriers(last.out)
        gf == last.out.categories["gameTheory"].findings
    IN /\ last.out.nashEquilibria # Some(<< >>)
       /\ last.out.nashEquilibria = None <=> Len(carriers) = 0
       /\ Len(carriers) > 0 =>
            last.out.nashEquilibria =
              Some(Flatten([i \in 1..Len(carriers) |->
                              Val(Val(carriers[i].gameTheory).equilibria)]))
       /\ last.out.dominantStrategies # Some(<< >>)
       /\ last.out.dominantStrategies = None <=>
            ~\E i \in 1..Len(gf) :
               /\ IsSome(gf[i].gameTheory)
               /\ Val(gf[i].gameTheory).strategy # ""
               /\ Val(gf[i].gameTheory).dominance # ""

\* a report with two carriers (bank run, governance deadlock): three equilibria
C14_Witness ==
  /\ HasReport(last)
  /\ Len(EquilibriaCarriers(last.out)) = 2
  /\ IsSome(last.out.nashEquilibria) /\ Len(Val(last.out.nashEquilibria)) = 3
  /\ last.out.dominantStrategies = None

\* the scores and severities of a report
ScoresOf(report) ==
  [overallScore |-> report.overallScore,
   overallSeverity |-> report.overallSeverity,
   categories |-> [k \in KeySet |-> << report.categories[k].score,
                                       report.categories[k].severity >>]]

\* C15: the order of the pools is irrelevant to scoring: two scoring calls
\* on inputs that differ only by a permutation of the pools return the same
\* six category scores and severities, overallScore and overallSeverity.
C15_PoolOrderIrrelevant ==
  TwoReports => ScoresOf(prev.out) = ScoresOf(last.out)

\* C16: a scoring pass leaves the caller's input unchanged: no step of the
\* engine writes to the input record or reorders or alters its pools,
\* vestingSchedule, tokenomics or governance.
C16_InputUnchanged == [][data' = data]_vars

\* a scoring pass has run over pools in ascending liquidity, a vesting
\* schedule and a governance object, and has sorted its recommendations
C16_Witness ==
  /\ HasReport(last)
  /\ IsSome(data.pools) /\ Len(Val(data.pools)) = MaxPools
  /\ Val(data.pools)[1].liquidity < Val(data.pools)[MaxPools].liquidity
  /\ IsSome(data.governance)
  /\ IsSome(data.tokenomics) /\ IsSome(Val(data.tokenomics).vestingSchedule)
  /\ Len(last.out.recommendations) > 1

\* The payment credential a request carries is accepted: an x-402-payment of
\* at least 64 characters or, on the Express server, an x-402-receipt that
\* starts with 'receipt:' and was stamped less than an hour before
AcceptedCredential(r) ==
  \/ (IsSome(r.payment) /\ Val(r.payment) >= 64)
  \/ /\ r.server = "express"
     /\ IsSome(r.receipt)
     /\ Val(r.receipt).prefix
     /\ IsSome(Val(r.receipt).timestamp)
     /\ r.at - Val(Val(r.receipt).timestamp) < 3600

\* C17: with x402 enabled, each of the three servers answers POST /api/analyze
\* with 402 and no report exactly when the request carries no accepted payment
\* credential, and hands back a report only for a request that carries one.
C17_ReportOnlyForAcceptedCredential ==
  (x402Enabled /\ response # None) =>
    LET r == Val(response)
    IN /\ r.body.status = 402 <=> ~AcceptedCredential(r)
       /\ r.body.status = 402 => "report" \notin DOMAIN r.body
       /\ "report" \in DOMAIN r.body => AcceptedCredential(r)
       /\ (AcceptedCredential(r) /\ Truthy(data.address) /\ Truthy(data.name))
            => r.body.status = 200 /\ "report" \in DOMAIN r.body

\* x402 is enabled and the Express server returned a report for a request
\* whose payment header was too short but whose receipt was fresh
C17_Witness ==
  /\ x402Enabled
  /\ response # None
  /\ Val(response).server = "express"
  /\ Val(response).payment = Some(63)
  /\ IsSome(Val(response).receipt)
  /\ Val(response).body.status = 200
  /\ "report" \in DOMAIN Val(response).body

\* The points the documented governance rules assign, one entry per rule
\* that fires: quorum, timelock, top-holder voting power, proposal threshold
DocumentedGovernancePoints(gov) ==
  LET quorum == IF gov.quorum < 400 THEN 8 ELSE IF gov.quorum < 1000 THEN 4 ELSE 0
      timelock == IF gov.timelockDelay < 24 * 3600 THEN 6 ELSE 0
      holder == IF gov.topHolderVotingPower > 5000 THEN 9
                ELSE IF gov.topHolderVotingPower > 3300 THEN 5 ELSE 0
      threshold == IF gov.proposalThreshold > 500 THEN 3 ELSE 0
  IN SelectSeq(<< quorum, timelock, holder, threshold >>, LAMBDA pts : pts > 0)

\* C18: with governance data present the governance category carries one
\* finding per documented rule that fires, and its score is the sum of the
\* fired rules' points divided by the number of findings (0 when there is
\* none), capped at 10; quorum 3%, timelock 12 hours, top holder 45% and
\* proposal threshold 1% give three findings, score 19/3 and severity high.
C18_GovernanceRules ==
  slots["governance"] # None =>
    LET gov == Val(data.governance)
        cat == Val(slots["governance"])
        points == DocumentedGovernancePoints(gov)
        average == IF Len(points) = 0 THEN Zero
                   ELSE FDivInt(FromInt(SumSeq(points)), Len(points))
    IN /\ Len(cat.findings) = Len(points)
       /\ cat.score = (IF FLess(FromInt(10), average) THEN FromInt(10) ELSE average)
       /\ (gov.quorum = 300 /\ gov.timelockDelay = 12 * 3600
             /\ gov.topHolderVotingPower = 4500 /\ gov.proposalThreshold = 100)
            => /\ Len(cat.findings) = 3
               /\ cat.score = Dec(19, 3)
               /\ cat.severity = "high"

\* The analyzer has scored the governance of the example: quorum 3%, timelock
\* 12 hours, top holder 45%, proposal threshold 1%
C18_Witness ==
  /\ slots["governance"] # None
  /\ Val(data.governance).quorum = 300
  /\ Val(data.governance).timelockDelay = 12 * 3600
  /\ Val(data.governance).topHolderVotingPower = 4500
  /\ Val(data.governance).proposalThreshold = 100
  /\ Len(Val(slots["governance"]).findings) = 3

\* The documented point value of an economic finding, by its title
EconomicPoints(title) ==
  CASE title = "Extreme Token Concentration" -> 8
    [] title = "Moderate Token Concentration" -> 4
    [] title = "Hyperinflationary Emission Schedule" -> 9
    [] title = "High Emission Rate" -> 5
    [] title = "Major Token Unlock Imminent" -> 7
    [] title = "Low Liquidity Pools Vulnerable to Manipulation" -> 7
    [] title = "Oracle Configuration Review Required" -> 3
    [] title = "High Utilization Creates Withdrawal Race" -> 6

\* The findings of the tokenomics rules: concentration, emission, cliff unlock
TokenomicsTitles ==
  { "Extreme Token Concentration", "Moderate Token Concentration",
    "Hyperinflationary Emission Schedule", "High Emission Rate",
    "Major Token Unlock Imminent" }

\* The score the economic category reports for a running totalScore: the
\* total divided by the number of checks run, three and one more when
\* tokenomics is present (it never reaches the cap of 10)
EconomicScoreOf(d, totalScore) ==
  FDivInt(totalScore, IF IsSome(d.tokenomics) THEN 4 ELSE 3)

PointsOf(findings) == SumSeq([i \in 1..Len(findings) |-> EconomicPoints(findings[i].title)])

\* C19 as stated: the running total of the economic category is the sum of
\* the point values of the findings it emitted.
C19_RunningTotalIsSumOfPoints ==
  HasReport(last) =>
    LET cat == last.out.categories["economic"]
    IN cat.score = EconomicScoreOf(data, FromInt(PointsOf(cat.findings)))

\* C19: every economic finding carries its documented point value; the
\* tokenomics rules (concentration, emission, cliff unlock) add theirs to the
\* tokenomics check's own score, whose average over the tokenomics findings
\* is what enters the category's running total, and the low-liquidity, oracle
\* and withdrawal-race findings add their points to the running total directly.
C19_RunningTotalAveragesTokenomics ==
  HasReport(last) =>
    LET cat == last.out.categories["economic"]
        tok == SelectSeq(cat.findings, LAMBDA f : f.title \in TokenomicsTitles)
        rest == SelectSeq(cat.findings, LAMBDA f : f.title \notin TokenomicsTitles)
        tokScore == IF Len(tok) = 0 THEN Zero
                    ELSE FDivInt(FromInt(PointsOf(tok)), Len(tok))
        totalScore == FSum(<< tokScore >>
                             \o [i \in 1..Len(rest) |->
                                   FromInt(EconomicPoints(rest[i].title))])
    IN cat.score = EconomicScoreOf(data, totalScore)

\* A report whose economic category carries two tokenomics findings, the
\* hyperinflation and the moderate-concentration one
C19_Witness ==
  /\ HasReport(last)
  /\ \E i, j \in 1..Len(last.out.categories["economic"].findings) :
       /\ last.out.categories["economic"].findings[i].title = "Moderate Token Concentration"
       /\ last.out.categories["economic"].findings[j].title = "Hyperinflationary Emission Schedule"

\* The unlocks of the submitted schedule that fall within the 30 days after
\* time at (none when there is no tokenomics or no schedule)
UnlocksAhead(d, at) ==
  IF IsSome(d.tokenomics) /\ IsSome(Val(d.tokenomics).vestingSchedule)
  THEN SelectSeq(Val(Val(d.tokenomics).vestingSchedule),
                 LAMBDA v : at < v.timestamp /\ v.timestamp < at + 30 * 24 * 3600)
  ELSE << >>

\* amount is more than 10% of the circulating supply
ExceedsTenPercent(d, amount) ==
  amount * 10 > Val(d.tokenomics).circulatingSupply

\* The economic category of a report carries the cliff-unlock finding
HasCliffUnlock(report) ==
  \E i \in 1..Len(report.categories["economic"].findings) :
    report.categories["economic"].findings[i].title = "Major Token Unlock Imminent"

\* C20 as stated: the cliff-unlock finding is emitted exactly when some single
\* unlock within the next 30 days exceeds 10% of circulating supply.
C20_CliffUnlockWhenOneUnlockExceeds ==
  HasReport(last) =>
    (HasCliffUnlock(last.out) <=>
       \E i \in 1..Len(UnlocksAhead(data, last.at)) :
         ExceedsTenPercent(data, UnlocksAhead(data, last.at)[i].amount))

\* C20: the cliff-unlock finding is emitted exactly when the unlocks scheduled
\* within the next 30 days together exceed 10% of circulating supply.
C20_CliffUnlockWhenUnlocksTogetherExceed ==
  HasReport(last) =>
    (HasCliffUnlock(last.out) <=>
       LET ahead == UnlocksAhead(data, last.at)
       IN /\ Len(ahead) > 0
          /\ ExceedsTenPercent(data, SumSeq([i \in 1..Len(ahead) |-> ahead[i].amount])))

\* The finding was emitted for two unlocks in the window of which neither
\* alone exceeds 10% of circulating supply
C20_Witness ==
  /\ HasReport(last)
  /\ HasCliffUnlock(last.out)
  /\ Len(UnlocksAhead(data, last.at)) = 2
  /\ \A i \in 1..2 : ~ExceedsTenPercent(data, UnlocksAhead(data, last.at)[i].amount)

\* Category cat of a report carries a finding with this title
CarriesTitle(report, cat, title) ==
  \E i \in 1..Len(report.categories[cat].findings) :
    report.categories[cat].findings[i].title = title

\* C21: the game-theory category carries the MEV-extraction dominant-strategy
\* finding exactly when the MEV category of the same report carries a sandwich
\* finding (high exposure or moderate risk) for at least one pool.
C21_MEVExtractionIffSandwichFinding ==
  HasReport(last) =>
    (CarriesTitle(last.out, "gameTheory", "Dominant Strategy: MEV Extraction")
       <=> \/ CarriesTitle(last.out, "mev", "High Sandwich Attack Exposure")
           \/ CarriesTitle(last.out, "mev", "Moderate Sandwich Risk"))

\* The documented weight of a confidence, in hundredths: 10 from 0.85,
\* 7 from 0.7, 4 from 0.5, 1 below
ConfidenceWeight(confidence) ==
  IF confidence >= 85 THEN 10
  ELSE IF confidence >= 70 THEN 7
  ELSE IF confidence >= 50 THEN 4
  ELSE 1

\* C22: the game-theory score is the mean over the category's findings of
\* weight(confidence) x confidence, capped at 10, and 0 when there is none.
C22_GameTheoryScore ==
  HasReport(last) =>
    LET cat == last.out.categories["gameTheory"]
        n == Len(cat.findings)
        total == FSum([i \in 1..n |->
                   FMul(FromInt(ConfidenceWeight(cat.findings[i].confidence)),
                        Dec(cat.findings[i].confidence, 100))])
        mean == IF n = 0 THEN Zero ELSE FDivInt(total, n)
    IN cat.score = (IF FLess(FromInt(10), mean) THEN FromInt(10) ELSE mean)

\* A report whose game-theory findings fall in three different weight classes
C22_Witness ==
  /\ HasReport(last)
  /\ \E i, j, k \in 1..Len(last.out.categories["gameTheory"].findings) :
       LET f == last.out.categories["gameTheory"].findings
       IN f[i].confidence >= 85 /\ f[j].confidence = 70 /\ f[k].confidence < 70

\* A category value is the placeholder with this title: score 2, severity
\* low, and that one finding of confidence 0.3 and nothing from a pool rule
IsPlaceholder(cat, title) ==
  /\ cat.score = FromInt(2)
  /\ cat.severity = "low"
  /\ Len(cat.findings) = 1
  /\ cat.findings[1].title = title
  /\ cat.findings[1].confidence = 30

\* C23: for an input with no pools (absent or empty) the liquidity analyzer
\* and the MEV analyzer each return their placeholder category, score 2,
\* severity low, one finding of confidence 0.3, and no finding of a pool rule.
C23_NoPoolsPlaceholders ==
  ZeroPools(data) =>
    /\ slots["liquidity"] # None
         => IsPlaceholder(Val(slots["liquidity"]), "No Liquidity Pool Data")
    /\ slots["mev"] # None
         => IsPlaceholder(Val(slots["mev"]), "No Pool Data Available")

\* Both analyzers have run on an input whose pools array is empty
C23_Witness ==
  /\ data.pools = Some(<< >>)
  /\ slots["liquidity"] # None
  /\ slots["mev"] # None

\* C24: the composability score is the mean of confidence x 10 over the
\* category's findings, capped at 10, and 0 when there is none; a name
\* that contains 'bridge' in any letter case ('Aave Bridge') brings the bridge
\* finding of confidence 0.85, and a pool token with a 'w' in its symbol
\* ('wBTC') brings the wrapped-asset finding.
C24_ComposabilityScore ==
  HasReport(last) =>
    LET cat == last.out.categories["composability"]
        n == Len(cat.findings)
        mean == IF n = 0 THEN Zero
                ELSE FDivInt(FSum([i \in 1..n |->
                               FMul(Dec(cat.findings[i].confidence, 100), FromInt(10))]), n)
    IN /\ cat.score = (IF FLess(FromInt(10), mean) THEN FromInt(10) ELSE mean)
       /\ data.name = Some(Str_AaveBridge)
            <=> \E i \in 1..n :
                  /\ cat.findings[i].title = "Bridge Protocol - Maximum Composability Risk"
                  /\ cat.findings[i].confidence = 85
       /\ (IsSome(data.pools) /\ \E i \in 1..Len(Val(data.pools)) :
                                    Val(data.pools)[i].token0 = Str_wBTC)
            => CarriesTitle(last.out, "composability", "Wrapped Asset Dependency")

\* A report for the protocol named 'Aave Bridge' with a tvl above $50M, whose
\* composability category carries at least three findings
C24_Witness ==
  /\ HasReport(last)
  /\ data.name = Some(Str_AaveBridge)
  /\ data.tvl = Some(60000)
  /\ Len(last.out.categories["composability"].findings) >= 3

\* The recommendations of a report are its high-confidence findings' texts
\* in non-increasing confidence order, the five highest when there are more
RecommendsTopFive(report) ==
  LET hc == HighConfidenceFindings(report)
      texts == [j \in 1..Len(hc) |-> DocumentedText(hc[j])]
      recs == report.recommendations
      n == IF Len(hc) < 5 THEN Len(hc) ELSE 5
      conf(r) == hc[CHOOSE j \in 1..Len(hc) : texts[j] = r].confidence
  IN /\ Len(recs) = n
     /\ \A i \in 1..n : \E j \in 1..Len(hc) : texts[j] = recs[i]
     /\ \A i \in 1..(n - 1) : conf(recs[i]) >= conf(recs[i + 1])
     /\ \A j \in 1..Len(hc) :
          (Len(hc) <= 5 \/ hc[j].confidence > conf(recs[n])) =>
             CountOf(recs, texts[j]) = CountOf(texts, texts[j])

\* C25: a report of the Next.js route lists as recommendations the top 5
\* findings by confidence among the findings of all categories with
\* confidence > 0.7, in descending confidence order.
C25_NextRecommendsTopFive ==
  (response # None /\ Val(response).server = "next"
     /\ "report" \in DOMAIN Val(response).body)
    => RecommendsTopFive(Val(response).body.report)

\* The receipt of request r starts with 'receipt:' and its timestamp lies
\* within the hour before r was handled
RecentReceipt(r) ==
  /\ IsSome(r.receipt)
  /\ Val(r.receipt).prefix
  /\ IsSome(Val(r.receipt).timestamp)
  /\ Val(Val(r.receipt).timestamp) <= r.at
  /\ r.at - Val(Val(r.receipt).timestamp) < 3600

\* C26: with x402 enabled, a request to the Express server that carries no
\* payment of at least 64 characters is admitted exactly when its receipt
\* starts with 'receipt:' and is stamped within the hour before the request;
\* with any other receipt it is answered 402.
C26_ReceiptAdmittedOnlyWhenRecent ==
  (x402Enabled /\ response # None /\ Val(response).server = "express"
     /\ ~(IsSome(Val(response).payment) /\ Val(Val(response).payment) >= 64))
    => (Val(response).body.status # 402 <=> RecentReceipt(Val(response)))

\* C27: in every report overallSeverity ranks at least as high as the
\* severity the breakpoints give for the rounded overallScore.
C27_OverallSeverityNeverUnderstates ==
  HasReport(last) =>
    SeverityRank(last.out.overallSeverity)
      >= SeverityRank(Breakpoint(last.out.overallScore))

\* A report that is critical overall although its overallScore is below 6
C27_Witness ==
  /\ HasReport(last)
  /\ last.out.overallSeverity = "critical"
  /\ FLess(last.out.overallScore, FromInt(6))
  /\ ~FLess(last.out.overallScore, FromInt(3))

\* C28: for an input with at least one pool the MEV category carries the
\* oracle front-running finding, its score is at least 3 and below 7 and its
\* severity is medium or high; the MEV category is never critical, and it is
\* low only for an input without pools.
C28_MEVScoreRange ==
  slots["mev"] # None =>
    LET cat == Val(slots["mev"])
    IN /\ cat.severity # "critical"
       /\ cat.severity = "low" => ZeroPools(data)
       /\ ~ZeroPools(data) =>
            /\ \E i \in 1..Len(cat.findings) :
                 cat.findings[i].title = "Oracle Update Front-Running Risk"
            /\ ~FLess(cat.score, FromInt(3))
            /\ FLess(cat.score, FromInt(7))
            /\ cat.severity \in { "medium", "high" }

\* The MEV analyzer has scored two pools that are both highly exposed to
\* sandwiches: three findings, score 17/3
C28_Witness ==
  /\ slots["mev"] # None
  /\ IsSome(data.pools)
  /\ Len(Val(data.pools)) = 2
  /\ Len(Val(slots["mev"]).findings) = 3
  /\ Val(slots["mev"]).score = Dec(17, 3)

\* C29: for every input the economic category carries the oracle-configuration
\* finding, its score is above 0 and at most 6.25, and its severity is not
\* critical.
C29_EconomicScoreRange ==
  slots["economic"] # None =>
    LET cat == Val(slots["economic"])
    IN /\ \E i \in 1..Len(cat.findings) :
            cat.findings[i].title = "Oracle Configuration Review Required"
       /\ FLess(Zero, cat.score)
       /\ ~FLess(Dec(25, 4), cat.score)
       /\ cat.severity # "critical"

\* All four checks at their highest: hyperinflation alone in tokenomics, a
\* thin pool, the oracle finding and the withdrawal race, score 25/4
C29_Witness ==
  /\ slots["economic"] # None
  /\ Len(Val(slots["economic"]).findings) = 4
  /\ Val(slots["economic"]).score = Dec(25, 4)

\* The farm-and-dump condition on the submitted tokenomics: emissionRate and
\* circulatingSupply non-zero and emissionRate x 24 / circulatingSupply > 0.01
FarmAndDump(d) ==
  /\ IsSome(d.tokenomics)
  /\ IsSome(Val(d.tokenomics).emissionRate)
  /\ Val(Val(d.tokenomics).emissionRate) # 0
  /\ Val(d.tokenomics).circulatingSupply # 0
  /\ Val(Val(d.tokenomics).emissionRate) * 24 * 100 > Val(d.tokenomics).circulatingSupply

\* C30: dominantStrategies is present in a report exactly when the
\* farm-and-dump condition holds, which is exactly when the farm-and-dump
\* finding is emitted; it then has exactly one entry, the farm-and-dump
\* strategy, and the MEV-extraction finding never contributes an entry.
C30_DominantStrategiesIffFarmAndDump ==
  HasReport(last) =>
    /\ IsSome(last.out.dominantStrategies) <=> FarmAndDump(data)
    /\ FarmAndDump(data)
         <=> CarriesTitle(last.out, "gameTheory", "Dominant Strategy: Farm-and-Dump")
    /\ IsSome(last.out.dominantStrategies) =>
         /\ Len(Val(last.out.dominantStrategies)) = 1
         /\ Val(last.out.dominantStrategies)[1][1] = "Sell immediately upon receiving rewards"
         /\ Val(last.out.dominantStrategies)[1][2] # ""

\* A report that carries both dominant-strategy findings and lists one
\* dominant strategy
C30_Witness ==
  /\ HasReport(last)
  /\ CarriesTitle(last.out, "gameTheory", "Dominant Strategy: Farm-and-Dump")
  /\ CarriesTitle(last.out, "gameTheory", "Dominant Strategy: MEV Extraction")
  /\ IsSome(last.out.dominantStrategies)
  /\ Len(Val(last.out.dominantStrategies)) = 1
====
